---------------------------- MODULE Spec2Model ----------------------------
(***************************************************************************)
(* The time-synchronisation core of the lap dashboard: the shared sync     *)
(* state (SyncContext), the video playback driver (VideoPlayer), the hover *)
(* broadcast published by the chart (ChartComponent) and consumed by the   *)
(* map (MapComponent) and the video driver, and the data fetches of the    *)
(* chart, the map and the session hook.                                    *)
(*                                                                         *)
(* Times are integers: one unit is 0.02 s.  On that grid toFixed(1) has no *)
(* rounding ties and the 0.05 s dispatch threshold lies strictly between   *)
(* two grid points.  Null (-1) stands for JavaScript null where a time is  *)
(* expected.                                                               *)
(***************************************************************************)
EXTENDS Integers, Sequences, FiniteSets, Bags, TLC

\* ------------------------------------------------------------------ bounds
MaxTime == 5
MaxTimers == 2
MaxFetches == 2
MaxLap == 2
MaxRetries == 2
\* the longest channel a track path is built from
MaxSamples == 4

\* ------------------------------------------------------- program constants
\* label: point.s.toFixed(1): one tenth of a second is 5 units of 0.02 s
UnitsPerTenth == 5
\* Math.abs(last - t) > 0.05: 0.05 s is 5 half-units of 0.02 s
ThresholdHalfUnits == 5

Null == -1
Times == 0..MaxTime
Abs(x) == IF x < 0 THEN -x ELSE x
Max(a, b) == IF a >= b THEN a ELSE b
Min(a, b) == IF a <= b THEN a ELSE b

VARIABLES
    \* SyncContext (SyncProvider)
    videoTime, lapStartVideoTime, isSyncActive, graphTime,
    \* route and useSessionData
    dashMounted, sessionId, sessionData, hookIsLoading, hookError, hookFetches,
    \* DashboardContent
    selectedLap, videoSeekToTime, videoEndTime, shouldAutoplayVideo,
    \* DataVisualization
    yAxis, dvIsLoading, dvError, channelData, dvFetches,
    \* ChartComponent
    dimensions, lastDispatchedGraphTimeRef, hoverPoint, tooltipVisible,
    \* MapComponent
    mapIsLoading, mapHasError, trackPath, speedData, mapFetches,
    mapInstanceRef, isMapReadyForDrawing, mapHoverTime,
    lastValidMapHoverTimeRef, hoverMarkerRef, liveMarkers, mapInitPending,
    \* VideoPlayer
    isApiLoaded, videoId, vpIsLoading, vpHasError, playerRef, playerReady,
    playerState, playerPos, livePlayers, playbackIntervalRef, activeTimers,
    playerManuallySeekedRef,
    \* what the last step sent out: commands to the player widget and hover
    \* events dispatched on the document
    commands, broadcasts,
    \* whose request's outcome the last step dropped, "none" if it dropped none
    discarded,
    \* the Maps script loader (MapComponent.tsx, module level, and document.head)
    loadGoogleMapsAPIPromise, scriptElement, scriptLoads, mapInitPromise, retryFetches,
    \* a helper function called on its own: its arguments and what it returned
    callArgs, callResult

syncVars == <<videoTime, lapStartVideoTime, isSyncActive, graphTime>>
hookVars == <<dashMounted, sessionId, sessionData, hookIsLoading, hookError, hookFetches>>
dashVars == <<selectedLap, videoSeekToTime, videoEndTime, shouldAutoplayVideo>>
dvVars == <<yAxis, dvIsLoading, dvError, channelData, dvFetches>>
chartVars == <<dimensions, lastDispatchedGraphTimeRef, hoverPoint, tooltipVisible>>
mapVars == <<mapIsLoading, mapHasError, trackPath, speedData, mapFetches,
             mapInstanceRef, isMapReadyForDrawing, mapHoverTime,
             lastValidMapHoverTimeRef, hoverMarkerRef, liveMarkers, mapInitPending>>
videoVars == <<isApiLoaded, videoId, vpIsLoading, vpHasError, playerRef, playerReady,
               playerState, playerPos, livePlayers, playbackIntervalRef, activeTimers,
               playerManuallySeekedRef>>
loaderVars == <<loadGoogleMapsAPIPromise, scriptElement, scriptLoads, mapInitPromise,
                retryFetches>>
callVars == <<callArgs, callResult>>
vars == <<syncVars, hookVars, dashVars, dvVars, chartVars, mapVars, videoVars,
          commands, broadcasts, discarded, loaderVars, callVars>>

\* ------------------------------------------------------------ SyncProvider
\* const graphTime = isSyncActive ? Math.max(0, videoTime - lapStartVideoTime) : null
ComputeGraphTimeNoClamp(active, vt, ls) == IF active THEN vt - ls ELSE Null
ComputeGraphTime(active, vt, ls) == IF active THEN Max(0, vt - ls) ELSE Null


\* ------------------------------------------------------------- server data
\* The telemetry API is external: for each lap and channel it serves a fixed
\* sample sequence.  d (lat, lng) identifies the session, lap and channel a
\* sample belongs to.
Laps == 1..MaxLap
Channels == {1, 2}
ChannelTimes(lap) ==
    IF lap % 2 = 1 THEN <<0, 3, MaxTime - 1>> ELSE <<1, 2, MaxTime>>
ServerChannelData(sid, lap, ch) ==
    [i \in 1..3 |-> [s |-> ChannelTimes(lap)[i], d |-> 1000 * sid + 100 * lap + 10 * ch + i]]
TrackTimes(lap) ==
    IF lap % 2 = 1 THEN <<0, 2, MaxTime - 2>> ELSE <<1, 3, MaxTime - 1>>
ServerTrackPath(sid, lap) ==
    [i \in 1..3 |-> [s |-> TrackTimes(lap)[i], lat |-> 100 * sid + 10 * lap + i,
                                               lng |-> 100 * sid + 10 * lap + i]]
ServerSpeedData(sid, lap) == <<[s |-> 0, d |-> 100 * sid + 10 * lap]>>

\* --------------------------------------------------------------- projectors
\* label: point.s.toFixed(1), read back with parseFloat(d.label)
ToFixed1(s) == ((2 * s + UnitsPerTenth) \div (2 * UnitsPerTenth)) * UnitsPerTenth
\* transformedData: the chart's data prop, one label per channel sample
TransformedData(cd) == [i \in 1..Len(cd) |-> [label |-> ToFixed1(cd[i].s), sales |-> cd[i].d]]

\* lastDispatchedGraphTimeRef.current === null || Math.abs(last - t) > 0.05
ShouldDispatch(last, t) == last = Null \/ 2 * Abs(last - t) > ThresholdHalfUnits

RECURSIVE LabelScanLast(_, _, _, _)
LabelScanLast(data, q, i, best) ==
    IF i > Len(data) THEN best
    ELSE LabelScanLast(data, q, i + 1,
                       IF Abs(data[i].label - q) <= Abs(data[best].label - q) THEN i ELSE best)
RECURSIVE LabelScan(_, _, _, _)
LabelScan(data, q, i, best) ==
    IF i > Len(data) THEN best
    ELSE LabelScan(data, q, i + 1,
                   IF Abs(data[i].label - q) < Abs(data[best].label - q) THEN i ELSE best)
\* sync effect: nearestDataPoint = data[0]; for (i = 1; ...) if (diff < smallestDiff)
ChartSyncNearest(data, q) == LabelScan(data, q, 2, 1)
\* findNearestPointForMouseEvent: nearestPoint = data[0]; data.forEach(...)
FindNearestPointForMouseEvent(data, mouseDomainX) == LabelScan(data, mouseDomainX, 1, 1)

RECURSIVE TrackScan(_, _, _, _)
TrackScan(track, time, i, best) ==
    IF i > Len(track) THEN best
    ELSE TrackScan(track, time, i + 1,
                   IF Abs(track[i].s - time) < Abs(track[best].s - time) THEN i ELSE best)
\* findTrackPointByTime: index of the closest point, 0 for "null"
FindTrackPointByTime(track, time) ==
    IF Len(track) = 0 \/ time = Null THEN 0 ELSE TrackScan(track, time, 1, 1)

\* ------------------------------------------------------------ hover channel
\* dispatchHoverTimeEvent: new CustomEvent(CHART_HOVER_EVENT, { detail: { time } }).
\* The detail has no userInitiated property, so a listener reads undefined.
\* src is not part of the event: it records which code path published it.
DispatchHoverTimeEvent(time, src) ==
    [time |-> time, userInitiated |-> "undefined", src |-> src]

NoHover == [x |-> Null, idx |-> 0]
NoMarker == [lat |-> Null, lng |-> Null]
SeekTo(t, by) == [op |-> "seekTo", arg |-> t, by |-> by]
PlayVideo(by) == [op |-> "playVideo", arg |-> Null, by |-> by]
PauseVideo(by) == [op |-> "pauseVideo", arg |-> Null, by |-> by]

\* The values one commit of the React tree reads and writes, as one record:
\*   a, vt, ls        the sync state            shown, dims, data   the chart's props/state
\*   last, hover, tip the chart's ref and cursor
\*   mapOn, track, inst, ready, mht, lastValid, marker   the map
\*   vpOn, player, pos, flag  the video driver (player: playerRef set and ready)
\*   cmds, evs        commands and hover events sent so far in this step
\*   fx               hover events published by effects of the commit being run
G(w) == ComputeGraphTime(w.a, w.vt, w.ls)

\* ------------------------------------------------- VideoPlayer hover listener
\* handleGraphHover: ignores the event unless detail.userInitiated is truthy
HandleGraphHoverAnyEvent(w, ev) ==
    IF ev.time # Null /\ w.player
    THEN [w EXCEPT !.cmds = w.cmds \o <<SeekTo(w.ls + ev.time, "hover"),
                                        IF w.a THEN PlayVideo("hover")
                                        ELSE PauseVideo("hover")>>,
                   !.vt = w.ls + ev.time,
                   !.pos = w.ls + ev.time,
                   !.flag = TRUE]
    ELSE w
HandleGraphHoverNoOffset(w, ev) ==
    IF ev.userInitiated # "true" THEN w
    ELSE IF ev.time # Null /\ w.player
         THEN [w EXCEPT !.cmds = w.cmds \o <<SeekTo(ev.time, "hover"),
                                             IF w.a THEN PlayVideo("hover")
                                             ELSE PauseVideo("hover")>>,
                        !.vt = ev.time,
                        !.pos = ev.time,
                        !.flag = TRUE]
         ELSE w
HandleGraphHoverAlwaysPlays(w, ev) ==
    IF ev.userInitiated # "true" THEN w
    ELSE IF ev.time # Null /\ w.player
         THEN [w EXCEPT !.cmds = w.cmds \o <<SeekTo(w.ls + ev.time, "hover"),
                                             PlayVideo("hover")>>,
                        !.vt = w.ls + ev.time,
                        !.pos = w.ls + ev.time,
                        !.flag = TRUE]
         ELSE w
HandleGraphHover(w, ev) ==
    IF ev.userInitiated # "true" THEN w
    ELSE IF ev.time # Null /\ w.player
         THEN [w EXCEPT !.cmds = w.cmds \o <<SeekTo(w.ls + ev.time, "hover"),
                                             IF w.a THEN PlayVideo("hover")
                                             ELSE PauseVideo("hover")>>,
                        !.vt = w.ls + ev.time,
                        !.pos = w.ls + ev.time,
                        !.flag = TRUE]
         ELSE w

RECURSIVE VideoDeliver(_, _)
VideoDeliver(w, evs) ==
    IF evs = <<>> THEN w ELSE VideoDeliver(HandleGraphHover(w, Head(evs)), Tail(evs))

\* ------------------------------------------------------- ChartComponent effects
LabelSet(data) == {data[i].label : i \in 1..Len(data)}
MinX(data) == CHOOSE m \in LabelSet(data) : \A y \in LabelSet(data) : m <= y
MaxX(data) == CHOOSE m \in LabelSet(data) : \A y \in LabelSet(data) : m >= y

ChartSyncEffectNoClamp(w) ==
    IF w.a /\ G(w) # Null /\ Len(w.data) > 0 /\ w.dims
    THEN LET g == G(w)
             send == ShouldDispatch(w.last, g)
         IN [w EXCEPT !.hover = [x |-> g, idx |-> ChartSyncNearest(w.data, g)],
                      !.tip = TRUE,
                      !.fx = IF send THEN w.fx \o <<DispatchHoverTimeEvent(g, "sync")>> ELSE w.fx,
                      !.last = IF send THEN g ELSE w.last]
    ELSE IF ~w.a THEN [w EXCEPT !.tip = FALSE] ELSE w

\* Effect for video-driven synchronization (deps isSyncActive, graphTime, data, dimensions)
ChartSyncEffect(w) ==
    IF w.a /\ G(w) # Null /\ Len(w.data) > 0 /\ w.dims
    THEN LET g == G(w)
             send == ShouldDispatch(w.last, g)
         IN [w EXCEPT !.hover = [x |-> Max(MinX(w.data), Min(MaxX(w.data), g)),
                                 idx |-> ChartSyncNearest(w.data, g)],
                      !.tip = TRUE,
                      !.fx = IF send THEN w.fx \o <<DispatchHoverTimeEvent(g, "sync")>> ELSE w.fx,
                      !.last = IF send THEN g ELSE w.last]
    ELSE IF ~w.a THEN [w EXCEPT !.tip = FALSE] ELSE w

ChartInitialEffectAlwaysSends(w) ==
    IF ~w.a /\ Len(w.data) > 0 /\ w.dims
    THEN LET first == w.data[1].label
         IN [w EXCEPT !.hover = [x |-> first, idx |-> 1],
                      !.tip = FALSE,
                      !.fx = w.fx \o <<DispatchHoverTimeEvent(first, "init")>>,
                      !.last = first]
    ELSE IF ~w.a /\ Len(w.data) = 0
    THEN [w EXCEPT !.hover = NoHover,
                   !.fx = IF w.last # Null THEN w.fx \o <<DispatchHoverTimeEvent(Null, "init")>> ELSE w.fx,
                   !.last = Null]
    ELSE w

\* Set initial hover point or when data changes (deps data, yAxisKey, dimensions, isSyncActive)
ChartInitialEffect(w) ==
    IF ~w.a /\ Len(w.data) > 0 /\ w.dims
    THEN LET first == w.data[1].label
             send == ShouldDispatch(w.last, first)
         IN [w EXCEPT !.hover = [x |-> first, idx |-> 1],
                      !.tip = FALSE,
                      !.fx = IF send THEN w.fx \o <<DispatchHoverTimeEvent(first, "init")>> ELSE w.fx,
                      !.last = IF send THEN first ELSE w.last]
    ELSE IF ~w.a /\ Len(w.data) = 0
    THEN [w EXCEPT !.hover = NoHover,
                   !.fx = IF w.last # Null THEN w.fx \o <<DispatchHoverTimeEvent(Null, "init")>> ELSE w.fx,
                   !.last = Null]
    ELSE w

\* return () => { if (lastDispatchedGraphTimeRef.current !== null) dispatchHoverTimeEvent(null) }
ChartUnmountEffect(w) ==
    [w EXCEPT !.fx = IF w.last # Null THEN w.fx \o <<DispatchHoverTimeEvent(Null, "unmount")>> ELSE w.fx,
              !.last = Null, !.hover = NoHover, !.tip = FALSE, !.dims = FALSE]

\* The chart's part of a commit.  w0 is the tree before the step, w1 after the
\* handler's writes; rr says that DataVisualization rendered again, which hands
\* the chart a new transformedData array, so both effects run again.
ChartStage(w0, w1, rr) ==
    IF ~w1.shown THEN (IF w0.shown THEN ChartUnmountEffect(w1) ELSE w1)
    ELSE IF ~w0.shown
    THEN \* mount: fresh state, dimensions measured by the mount effect
         ChartInitialEffect(ChartSyncEffect(
             [w1 EXCEPT !.last = Null, !.hover = NoHover, !.tip = FALSE, !.dims = TRUE]))
    ELSE IF rr \/ w0.dims # w1.dims THEN ChartInitialEffect(ChartSyncEffect(w1))
    ELSE w1

\* -------------------------------------------------------- MapComponent effects
Falsy(t) == t = Null \/ t = 0
NoPend == [set |-> FALSE, val |-> Null]
Pend(t) == [set |-> TRUE, val |-> t]
PointAt(track, i) == [lat |-> track[i].lat, lng |-> track[i].lng]

\* hoverMarkerRef.current = new google.maps.Marker({position, map, ...})
NewMarker(w, position) == [w EXCEPT !.marker = position, !.markers = @ + 1]
\* hoverMarkerRef.current.setPosition(position)
SetPosition(w, position) == [w EXCEPT !.marker = position]
\* if (hoverMarkerRef.current) { ....setMap(null); hoverMarkerRef.current = null }
RemoveHoverMarker(w) ==
    IF w.marker # NoMarker THEN [w EXCEPT !.marker = NoMarker, !.markers = @ - 1] ELSE w
\* if (!hoverMarkerRef.current) { new Marker } else { setPosition }
PlaceHoverMarker(w, position) ==
    IF w.marker = NoMarker THEN NewMarker(w, position) ELSE SetPosition(w, position)

UpdateHoverMarkerNoMapCheck(w, t) ==
    LET effectiveTime == IF t # Null THEN t ELSE w.lastValid
        i == FindTrackPointByTime(w.track, effectiveTime)
    IN IF effectiveTime = Null \/ i = 0 THEN w
       ELSE PlaceHoverMarker([w EXCEPT !.lastValid = IF t # Null THEN t ELSE w.lastValid],
                             PointAt(w.track, i))
UpdateHoverMarkerStale(w, t) ==
    IF ~w.inst THEN RemoveHoverMarker(w)
    ELSE LET effectiveTime == IF w.lastValid # Null THEN w.lastValid ELSE t
             i == FindTrackPointByTime(w.track, effectiveTime)
         IN IF effectiveTime = Null \/ i = 0 THEN w
            ELSE PlaceHoverMarker([w EXCEPT !.lastValid = IF t # Null THEN t ELSE w.lastValid],
                                  PointAt(w.track, i))
\* updateHoverMarker as it would be if it made a marker on every call
UpdateHoverMarkerAlwaysNew(w, t) ==
    IF ~w.inst THEN RemoveHoverMarker(w)
    ELSE LET effectiveTime == IF t # Null THEN t ELSE w.lastValid
             i == FindTrackPointByTime(w.track, effectiveTime)
         IN IF effectiveTime = Null \/ i = 0 THEN w
            ELSE NewMarker([w EXCEPT !.lastValid = IF t # Null THEN t ELSE w.lastValid],
                           PointAt(w.track, i))

\* updateHoverMarker(currentTimeForMarker)
UpdateHoverMarker(w, t) ==
    IF ~w.inst THEN RemoveHoverMarker(w)
    ELSE LET effectiveTime == IF t # Null THEN t ELSE w.lastValid
             i == FindTrackPointByTime(w.track, effectiveTime)
         IN IF effectiveTime = Null \/ i = 0 THEN w
            ELSE PlaceHoverMarker([w EXCEPT !.lastValid = IF t # Null THEN t ELSE w.lastValid],
                                  PointAt(w.track, i))

\* handleChartHover: setMapHoverTime(detail.time)
HandleChartHover(pend, ev) == Pend(ev.time)

RECURSIVE MapDeliver(_, _)
MapDeliver(pend, evs) ==
    IF evs = <<>> THEN pend ELSE MapDeliver(HandleChartHover(pend, Head(evs)), Tail(evs))

\* listener effect (deps trackPath, isSyncActive): initial hover time
MapListenerEffect(m) ==
    LET w == m.w IN
    IF ~w.a /\ Len(w.track) > 0 /\ Falsy(w.mht) /\ Falsy(w.lastValid)
    THEN [w |-> [w EXCEPT !.lastValid = w.track[1].s], pend |-> Pend(w.track[1].s)]
    ELSE m

\* Effect to update mapHoverTime based on video sync (deps isSyncActive, syncedGraphTime)
MapSyncEffect(m) ==
    IF m.w.a /\ G(m.w) # Null THEN [m EXCEPT !.pend = Pend(G(m.w))] ELSE m

\* Update marker position when mapHoverTime changes (deps mapHoverTime, trackPath, ready)
MapHoverEffect(m) ==
    IF m.w.ready THEN [m EXCEPT !.w = UpdateHoverMarker(m.w, m.w.mht)] ELSE m

\* marker time: synced graph time, else mapHoverTime, else the first point
MarkerTime(w) ==
    IF w.a /\ G(w) # Null THEN G(w)
    ELSE IF w.mht # Null THEN w.mht ELSE w.track[1].s

\* Effect to initialize or update marker (deps mapHoverTime, trackPath, ready, sync)
MapMarkerEffect(m) ==
    IF Len(m.w.track) > 0 /\ m.w.ready
    THEN [m EXCEPT !.w = UpdateHoverMarker([m.w EXCEPT !.lastValid = MarkerTime(m.w)],
                                           MarkerTime(m.w))]
    ELSE m

\* Special marker init effect (creates the marker instance if it doesn't exist)
MapMarkerInitEffect(m) ==
    LET w == m.w IN
    IF Len(w.track) > 0 /\ w.ready /\ w.inst /\ w.marker = NoMarker
    THEN LET t == MarkerTime(w)
             i == FindTrackPointByTime(w.track, t)
         IN IF i # 0
            THEN [w |-> NewMarker([w EXCEPT !.lastValid = t], PointAt(w.track, i)),
                  pend |-> Pend(t)]
            ELSE m
    ELSE m

\* One commit of the map: the effects whose dependencies changed, in source
\* order; run is the record of which ones do.
MapCommit(m, run) ==
    LET m1 == IF run.listener THEN MapListenerEffect(m) ELSE m
        m2 == IF run.sync THEN MapSyncEffect(m1) ELSE m1
        m3 == IF run.hover THEN MapHoverEffect(m2) ELSE m2
        m4 == IF run.marker THEN MapMarkerEffect(m3) ELSE m3
    IN IF run.init THEN MapMarkerInitEffect(m4) ELSE m4

AllEffects == [listener |-> TRUE, sync |-> TRUE, hover |-> TRUE, marker |-> TRUE, init |-> TRUE]
HoverTimeEffects == [listener |-> FALSE, sync |-> FALSE, hover |-> TRUE, marker |-> TRUE, init |-> TRUE]

\* setMapHoverTime calls made during a commit render the map again with the
\* new mapHoverTime; only the effects that depend on it run then.
RECURSIVE MapRerender(_, _)
MapRerender(m, fuel) ==
    IF ~m.pend.set \/ m.pend.val = m.w.mht \/ fuel = 0 THEN m.w
    ELSE MapRerender(MapCommit([w |-> [m.w EXCEPT !.mht = m.pend.val], pend |-> NoPend],
                               HoverTimeEffects), fuel - 1)

\* The map's part of a commit.  w0: the tree before the step; w1: after the
\* handler's writes and the chart's effects; pend: setMapHoverTime calls made
\* by the map's hover listener for the events of this commit.
MapStage(w0, w1, pend, instChanged) ==
    IF ~w1.mapOn THEN w1
    ELSE LET g0 == G(w0)
             g1 == G(w1)
             sy == w0.a # w1.a \/ g0 # g1
             ht == w0.mht # w1.mht \/ w0.track # w1.track \/ w0.ready # w1.ready
             run == IF ~w0.mapOn THEN AllEffects
                    ELSE [listener |-> w0.track # w1.track \/ w0.a # w1.a,
                          sync |-> sy,
                          hover |-> ht,
                          marker |-> ht \/ sy,
                          init |-> ht \/ sy \/ instChanged]
         IN MapRerender(MapCommit([w |-> w1, pend |-> pend], run), 4)

\* ----------------------------------------------------------------- a commit
\* React commits a render in two passes: first the clean-ups of removed
\* components and of effects whose dependencies changed, then the effect
\* bodies, each pass in tree order (DataVisualization and its chart, then
\* VideoPlayer, then MapComponent).  An event the chart's unmount clean-up
\* dispatches still finds the old listeners; an event a chart effect body
\* dispatches finds a listener only if that listener's effect is not being
\* re-run in the same commit (its dependencies are unchanged).
\* DashboardContent reads the sync context, so every change of the sync state
\* renders it and its children again; rr names the other causes of a new
\* render of DataVisualization.
\* an event on record, with the listeners that were attached when it was sent
Heard(ev, video, map) ==
    [time |-> ev.time, userInitiated |-> ev.userInitiated, src |-> ev.src,
     video |-> video, map |-> map]

Settle(w0, w1, rr, instChanged) ==
    LET c == ChartStage(w0, [w1 EXCEPT !.fx = <<>>],
                        rr \/ w0.a # w1.a \/ w0.vt # w1.vt \/ w0.ls # w1.ls)
        cleanupPhase == w0.shown /\ ~w1.shown
        videoHears == w0.vpOn /\ w1.vpOn
                      /\ (cleanupPhase \/ (w0.a = w1.a /\ w0.ls = w1.ls))
        mapHears == w0.mapOn /\ w1.mapOn
                    /\ (cleanupPhase \/ (w0.a = w1.a /\ w0.track = w1.track))
        v == IF videoHears THEN VideoDeliver(c, c.fx) ELSE c
        pend == IF mapHears THEN MapDeliver(NoPend, c.fx) ELSE NoPend
        m == MapStage(w0, v, pend, instChanged)
    IN [m EXCEPT !.evs = w1.evs \o [i \in 1..Len(c.fx) |-> Heard(c.fx[i], videoHears, mapHears)]]

ContentShown == dashMounted /\ ~hookIsLoading /\ ~hookError /\ sessionData # 0
ChartShown == ContentShown /\ ~dvIsLoading /\ ~dvError /\ Len(channelData) > 0

Cur ==
    [a |-> isSyncActive, vt |-> videoTime, ls |-> lapStartVideoTime,
     shown |-> ChartShown, dims |-> dimensions, data |-> TransformedData(channelData),
     last |-> lastDispatchedGraphTimeRef, hover |-> hoverPoint, tip |-> tooltipVisible,
     mapOn |-> ContentShown, track |-> trackPath, inst |-> mapInstanceRef,
     ready |-> isMapReadyForDrawing, mht |-> mapHoverTime,
     lastValid |-> lastValidMapHoverTimeRef, marker |-> hoverMarkerRef,
     markers |-> liveMarkers,
     vpOn |-> ContentShown, player |-> playerRef # 0 /\ playerReady,
     pos |-> playerPos, flag |-> playerManuallySeekedRef,
     cmds |-> <<>>, evs |-> <<>>, fx |-> <<>>, drop |-> "none"]

\* The state a commit leaves behind.
Apply(tree) ==
    \E w \in {tree} :
        /\ isSyncActive' = w.a
        /\ videoTime' = w.vt
        /\ lapStartVideoTime' = w.ls
        /\ graphTime' = G(w)
        /\ dimensions' = w.dims
        /\ lastDispatchedGraphTimeRef' = w.last
        /\ hoverPoint' = w.hover
        /\ tooltipVisible' = w.tip
        /\ trackPath' = w.track
        /\ mapInstanceRef' = w.inst
        /\ isMapReadyForDrawing' = w.ready
        /\ mapHoverTime' = w.mht
        /\ lastValidMapHoverTimeRef' = w.lastValid
        /\ hoverMarkerRef' = w.marker
        /\ liveMarkers' = w.markers
        /\ playerPos' = w.pos
        /\ playerManuallySeekedRef' = w.flag
        /\ commands' = w.cmds
        /\ broadcasts' = w.evs
        /\ discarded' = w.drop

\* ------------------------------------------------ VideoPlayer.tsx: video URLs
\* new URL(url) for the URLs tried here: lower-case letters, digits and the
\* delimiters ":", "/", "?", "&", "=", ".", with no userinfo, port or fragment.
\* A string is the sequence of its characters; a URL is [null, chars]; the
\* parsed URL is [throws, hostname, pathname, search].
\* String.prototype.split with a one-character separator
RECURSIVE SplitFrom(_, _, _, _, _)
SplitFrom(str, sep, i, cur, out) ==
    IF i > Len(str) THEN Append(out, cur)
    ELSE IF str[i] = sep THEN SplitFrom(str, sep, i + 1, <<>>, Append(out, cur))
    ELSE SplitFrom(str, sep, i + 1, Append(cur, str[i]), out)
Split(str, sep) == SplitFrom(str, sep, 1, <<>>, <<>>)
Letters ==
    {"a", "b", "c", "d", "e", "f", "g", "h", "i", "j", "k", "l", "m", "n", "o", "p", "q",
     "r", "s", "t", "u", "v", "w", "x", "y", "z"}
Chars(str) == [null |-> FALSE, chars |-> str]
NullString == [null |-> TRUE, chars |-> <<>>]
\* the index of the first character of str at or after i that is in set, else Len(str) + 1
RECURSIVE IndexOfAny(_, _, _)
IndexOfAny(str, set, i) ==
    IF i > Len(str) \/ str[i] \in set THEN i ELSE IndexOfAny(str, set, i + 1)
RECURSIVE SkipSlashes(_, _)
SkipSlashes(str, i) == IF i <= Len(str) /\ str[i] = "/" THEN SkipSlashes(str, i + 1) ELSE i
InvalidUrl == [throws |-> TRUE, hostname |-> <<>>, pathname |-> <<>>, search |-> <<>>]
ParseUrl(str) ==
    LET colon == IndexOfAny(str, {":"}, 1)
        scheme == SubSeq(str, 1, colon - 1)
    IN \* no scheme and no base URL: TypeError
       IF colon > Len(str) \/ scheme = <<>> \/ \E i \in 1..Len(scheme) : scheme[i] \notin Letters
       THEN InvalidUrl
       ELSE LET special == scheme \in {<<"h", "t", "t", "p">>, <<"h", "t", "t", "p", "s">>}
                slashes == SkipSlashes(str, colon + 1) - (colon + 1)
                hasHost == special \/ slashes >= 2
                hostFrom == IF special THEN colon + 1 + slashes
                            ELSE IF hasHost THEN colon + 3 ELSE colon + 1
                hostTo == IF hasHost THEN IndexOfAny(str, {"/", "?"}, hostFrom) ELSE hostFrom
                hostname == SubSeq(str, hostFrom, hostTo - 1)
                query == IndexOfAny(str, {"?"}, hostTo)
                path == SubSeq(str, hostTo, query - 1)
            IN \* a special scheme needs a host
               IF special /\ hostname = <<>> THEN InvalidUrl
               ELSE [throws |-> FALSE, hostname |-> hostname,
                     pathname |-> IF special /\ path = <<>> THEN <<"/">> ELSE path,
                     search |-> SubSeq(str, query + 1, Len(str))]

\* String.prototype.includes
Includes(str, sub) ==
    \E i \in 1..(Len(str) - Len(sub) + 1) : SubSeq(str, i, i + Len(sub) - 1) = sub

\* URLSearchParams.get(name): the value of the first name=value pair with
\* that name, null when there is none
RECURSIVE FirstParam(_, _, _)
FirstParam(pairs, name, k) ==
    IF k > Len(pairs) THEN NullString
    ELSE LET eq == IndexOfAny(pairs[k], {"="}, 1)
         IN IF pairs[k] # <<>> /\ SubSeq(pairs[k], 1, eq - 1) = name
            THEN Chars(SubSeq(pairs[k], eq + 1, Len(pairs[k])))
            ELSE FirstParam(pairs, name, k + 1)
SearchParamsGet(search, name) == FirstParam(Split(search, "&"), name, 1)

YoutuBe == <<"y", "o", "u", "t", "u", ".", "b", "e">>
YoutubeCom == <<"y", "o", "u", "t", "u", "b", "e", ".", "c", "o", "m">>
\* getYouTubeVideoId; new URL throws inside the try, and the catch falls
\* through to return null
GetYouTubeVideoId(url) ==
    IF url.null \/ url.chars = <<>> THEN NullString
    ELSE LET urlObj == ParseUrl(url.chars)
         IN IF urlObj.throws THEN NullString
            ELSE IF urlObj.hostname = YoutuBe
            THEN Chars(SubSeq(urlObj.pathname, 2, Len(urlObj.pathname)))
            ELSE IF Includes(urlObj.hostname, YoutubeCom)
            THEN SearchParamsGet(urlObj.search, <<"v">>)
            ELSE NullString

\* ------------------------------------------------------------- session data
\* Two sessions the API can serve: one with a playable video, one with no
\* video.  sessionData is 0 for null, else the id of the session whose data
\* the hook holds.
Sessions == {1, 2}
VideoUrlChars ==
    <<"h", "t", "t", "p", "s", ":", "/", "/", "y", "o", "u", "t", "u", ".", "b", "e", "/", "a">>
VideoUrl(sd) == IF sd = 1 THEN Chars(VideoUrlChars) ELSE NullString
\* the videoId state: 0 for no id, 1 for the id of session 1's video
VideoIdNumber(id) == IF id.null \/ id.chars = <<>> THEN 0 ELSE 1
\* convertSyncTimeToSeconds(sessionData.sync)
BaseSync(sd) == IF sd = 1 THEN 2 ELSE 0
\* events: one lap event per lap, lap n starting at startSecond 3 * (n - 1)
StartSecond(lap) == 3 * (lap - 1)
HasLapEvent(lap) == lap \in Laps
\* getLapOptions(events)[0], 0 when there is no session data
FirstLapOption(sd) == IF sd = 0 THEN 0 ELSE 1
\* channels[0]
FirstChannel(sd) == IF sd = 0 THEN 0 ELSE 1

\* The effect as it would be if the shared lap start were taken from the sync
\* offset alone, without the lap's own start second.
LapEffectBaseStart(sd, lap) ==
    IF sd = 0 THEN [seek |-> 0, end |-> Null, auto |-> FALSE, ls |-> 0]
    ELSE IF lap > 1 /\ HasLapEvent(lap)
    THEN [seek |-> BaseSync(sd) + StartSecond(lap),
          end |-> IF HasLapEvent(lap + 1) THEN BaseSync(sd) + StartSecond(lap + 1) ELSE Null,
          auto |-> TRUE, ls |-> BaseSync(sd)]
    ELSE [seek |-> BaseSync(sd),
          end |-> IF lap = 1 /\ HasLapEvent(2) THEN BaseSync(sd) + StartSecond(2) ELSE Null,
          auto |-> lap > 1, ls |-> BaseSync(sd)]

\* DashboardContent: "Calculate video seek time and autoplay status" effect
\* (deps selectedLap, sessionData); lap is 0 for null
LapEffect(sd, lap) ==
    IF sd = 0 THEN [seek |-> 0, end |-> Null, auto |-> FALSE, ls |-> 0]
    ELSE IF lap = 1
    THEN [seek |-> BaseSync(sd),
          end |-> IF HasLapEvent(2) THEN BaseSync(sd) + StartSecond(2) ELSE Null,
          auto |-> FALSE, ls |-> BaseSync(sd)]
    ELSE IF lap > 1
    THEN IF HasLapEvent(lap)
         THEN [seek |-> BaseSync(sd) + StartSecond(lap),
               end |-> IF HasLapEvent(lap + 1) THEN BaseSync(sd) + StartSecond(lap + 1) ELSE Null,
               auto |-> TRUE, ls |-> BaseSync(sd) + StartSecond(lap)]
         ELSE [seek |-> BaseSync(sd), end |-> Null, auto |-> TRUE, ls |-> BaseSync(sd)]
    ELSE [seek |-> BaseSync(sd), end |-> Null, auto |-> FALSE, ls |-> BaseSync(sd)]

\* ------------------------------------------------------ VideoPlayer: the player
\* The driver's own state as one record: vid, loading, error (component state),
\* ref (playerRef: 0 for null), ready (the widget has fired onReady, so its
\* methods exist), st (the widget's state), live (widgets created and not
\* destroyed), handle (playbackIntervalRef: 0 for null), timers (interval
\* timers that are running), flag (playerManuallySeekedRef), a (isSyncActive).
VCur ==
    [vid |-> videoId, loading |-> vpIsLoading, error |-> vpHasError,
     ref |-> playerRef, ready |-> playerReady, st |-> playerState,
     live |-> livePlayers, handle |-> playbackIntervalRef, timers |-> activeTimers,
     flag |-> playerManuallySeekedRef, a |-> isSyncActive]

VInitial ==
    [vid |-> 0, loading |-> TRUE, error |-> FALSE, ref |-> 0, ready |-> FALSE,
     st |-> "none", live |-> 0, handle |-> 0, timers |-> {}, flag |-> FALSE, a |-> FALSE]

\* if (playbackIntervalRef.current) clearInterval(playbackIntervalRef.current)
ClearInterval(v) == [v EXCEPT !.timers = v.timers \ {v.handle}]
\* playerRef.current.destroy(); playerRef.current = null
DestroyPlayer(v) ==
    IF v.ref # 0
    THEN [v EXCEPT !.ref = 0, !.ready = FALSE, !.st = "none", !.live = v.live - 1]
    ELSE v

\* clean-up of the player effect
PlayerEffectCleanupKeepsSync(v) ==
    DestroyPlayer([ClearInterval(v) EXCEPT !.handle = 0])
PlayerEffectCleanup(v) ==
    DestroyPlayer([ClearInterval(v) EXCEPT !.handle = 0, !.a = FALSE])

\* createPlayer (the container ref is set whenever the component is mounted)
CreatePlayer(v) ==
    [DestroyPlayer(v) EXCEPT !.ref = 1, !.ready = FALSE, !.st = "unstarted",
                             !.live = DestroyPlayer(v).live + 1]

\* body of the player effect (deps isApiLoaded, videoUrl, seekToTime, shouldAutoplay, endTime)
\* the effect once currentVideoId = getYouTubeVideoId(videoUrl) is known
PlayerEffectFor(v, url, api, currentVideoId) ==
    LET v1 == [v EXCEPT !.flag = IF v.vid # currentVideoId THEN FALSE ELSE v.flag,
                        !.vid = currentVideoId]
    IN IF currentVideoId = 0
       THEN ClearInterval([DestroyPlayer(v1) EXCEPT !.loading = FALSE,
                                                    !.error = url.null,
                                                    !.a = FALSE])
       ELSE LET v2 == [v1 EXCEPT !.loading = TRUE, !.error = FALSE]
            IN IF api THEN CreatePlayer(v2) ELSE v2
PlayerEffectBody(v, url, api) ==
    PlayerEffectFor(v, url, api, VideoIdNumber(GetYouTubeVideoId(url)))

PlayerEffect(v, url, api) == PlayerEffectBody(PlayerEffectCleanup(v), url, api)

ApplyVideo(driver) ==
    \E v \in {driver} :
        /\ videoId' = v.vid
        /\ vpIsLoading' = v.loading
        /\ vpHasError' = v.error
        /\ playerRef' = v.ref
        /\ playerReady' = v.ready
        /\ playerState' = v.st
        /\ livePlayers' = v.live
        /\ playbackIntervalRef' = v.handle
        /\ activeTimers' = v.timers

\* the video part of the tree record after the driver's state became v; a
\* widget that is not ready yet stands at playerVars.start
WithVideo(w, v, start) ==
    [w EXCEPT !.a = v.a, !.flag = v.flag, !.player = (v.ref # 0 /\ v.ready),
              !.pos = IF v.ref = 0 THEN 0 ELSE IF ~v.ready THEN start ELSE w.pos]

\* ------------------------------------------------------------------ fetches
\* The requests of one kind that are pending form a bag of records.
HasRoom(B) == BagCardinality(B) < MaxFetches
One(f) == SetToBag({f})

\* DataVisualization fetch effect: fetchLapChannelData(sessionId, selectedLap, yAxis).
\* mounted: the DataVisualization instance that started it still exists.
StartDvFetch(S, sid, lap, ch) ==
    S (+) One([sid |-> sid, lap |-> lap, ch |-> ch, mounted |-> TRUE])

\* MapComponent fetch effect: the clean-up clears the previous run's isMounted;
\* the new run's callback closes over the render's isSyncActive, syncedGraphTime
\* and mapHoverTime.
Dead(f) == [f EXCEPT !.alive = FALSE]
Unmounted(S) == BagOfAll(Dead, S)
StartMapFetch(S, sid, lap, ca, cg, cmht) ==
    Unmounted(S) (+) One([sid |-> sid, lap |-> lap, alive |-> TRUE,
                      ca |-> ca, cg |-> cg, cmht |-> cmht])

\* The player effect runs again only when one of its dependencies changed.
PlayerEffectIfChanged(v, e0, e1, url, api) ==
    IF e0.seek # e1.seek \/ e0.end # e1.end \/ e0.auto # e1.auto
    THEN PlayerEffect(v, url, api) ELSE v

CurProps ==
    [seek |-> videoSeekToTime, end |-> videoEndTime, auto |-> shouldAutoplayVideo,
     ls |-> lapStartVideoTime]

ApplyProps(e) ==
    /\ videoSeekToTime' = e.seek
    /\ videoEndTime' = e.end
    /\ shouldAutoplayVideo' = e.auto

\* GraphControls onLapChange -> setSelectedLap(lap).  Commit 1 renders the new
\* lap: the chart and map fetch effects start their requests and the lap
\* effect sets the video props and the lap start.  Commit 2 renders those:
\* the chart is hidden behind the spinner, the player effect runs again.
\* Commit 3 renders the player effect's setIsSyncActive(false).
SelectLap(lap) ==
    /\ ContentShown /\ lap \in Laps /\ lap # selectedLap
    /\ HasRoom(dvFetches) /\ HasRoom(mapFetches)
    /\ LET e == LapEffect(sessionData, lap)
           v == PlayerEffectIfChanged(VCur, CurProps, e, VideoUrl(sessionData), isApiLoaded)
           w1 == [Cur EXCEPT !.ls = e.ls, !.shown = FALSE]
           w2 == Settle(Cur, w1, TRUE, FALSE)
           w3 == Settle(w2, WithVideo(w2, v, e.seek), TRUE, FALSE)
       IN /\ selectedLap' = lap
          /\ ApplyProps(e)
          /\ dvIsLoading' = TRUE
          /\ dvError' = FALSE
          /\ dvFetches' = StartDvFetch(dvFetches, sessionId, lap, yAxis)
          /\ mapIsLoading' = TRUE
          /\ mapHasError' = FALSE
          /\ mapFetches' = StartMapFetch(mapFetches, sessionId, lap,
                                         isSyncActive, graphTime, mapHoverTime)
          /\ ApplyVideo(v)
          /\ Apply(w3)
    /\ UNCHANGED <<mapInitPending, hookVars, yAxis, channelData, speedData, isApiLoaded>>
    /\ UNCHANGED <<loaderVars, callVars>>

\* GraphControls onYAxisChange -> setYAxis(channel)
SelectYAxis(ch) ==
    /\ ContentShown /\ ch \in Channels /\ ch # yAxis /\ selectedLap # 0
    /\ HasRoom(dvFetches)
    /\ yAxis' = ch
    /\ dvIsLoading' = TRUE
    /\ dvError' = FALSE
    /\ dvFetches' = StartDvFetch(dvFetches, sessionId, selectedLap, ch)
    /\ Apply(Settle(Cur, [Cur EXCEPT !.shown = FALSE], TRUE, FALSE))
    /\ UNCHANGED <<mapInitPending, hookVars, dashVars, channelData, mapIsLoading, mapHasError,
                   speedData, mapFetches, isApiLoaded, videoId, vpIsLoading, vpHasError,
                   playerRef, playerReady, playerState, livePlayers,
                   playbackIntervalRef, activeTimers>>
    /\ UNCHANGED <<loaderVars, callVars>>

\* fetchData after its await: try { setChannelData(data) } catch { setError(..);
\* setChannelData([]) } finally { setIsLoading(false) }.  Nothing checks that
\* the request is still the current one.
DvFetchResolveStopsSync(f, ok) ==
    /\ BagIn(f, dvFetches)
    /\ dvFetches' = dvFetches (-) One(f)
    /\ IF f.mounted
       THEN /\ channelData' = IF ok THEN ServerChannelData(f.sid, f.lap, f.ch) ELSE <<>>
            /\ dvError' = IF ok THEN dvError ELSE TRUE
            /\ dvIsLoading' = FALSE
            /\ Apply(Settle(Cur, [Cur EXCEPT !.shown = ContentShown /\ ok /\ ~dvError,
                                             !.data = TransformedData(channelData'),
                                             !.a = ok /\ isSyncActive],
                            TRUE, FALSE))
       ELSE /\ UNCHANGED <<channelData, dvError, dvIsLoading>>
            /\ Apply([Cur EXCEPT !.drop = "chart"])
    /\ UNCHANGED <<mapInitPending, hookVars, dashVars, yAxis, mapIsLoading, mapHasError,
                   speedData, mapFetches, isApiLoaded, videoId, vpIsLoading, vpHasError,
                   playerRef, playerReady, playerState, livePlayers,
                   playbackIntervalRef, activeTimers>>
    /\ UNCHANGED <<loaderVars, callVars>>
DvFetchResolve(f, ok) ==
    /\ BagIn(f, dvFetches)
    /\ dvFetches' = dvFetches (-) One(f)
    /\ IF f.mounted
       THEN /\ channelData' = IF ok THEN ServerChannelData(f.sid, f.lap, f.ch) ELSE <<>>
            /\ dvError' = IF ok THEN dvError ELSE TRUE
            /\ dvIsLoading' = FALSE
            /\ Apply(Settle(Cur, [Cur EXCEPT !.shown = ContentShown /\ ok /\ ~dvError,
                                             !.data = TransformedData(channelData')],
                            TRUE, FALSE))
       ELSE /\ UNCHANGED <<channelData, dvError, dvIsLoading>>
            /\ Apply([Cur EXCEPT !.drop = "chart"])
    /\ UNCHANGED <<mapInitPending, hookVars, dashVars, yAxis, mapIsLoading, mapHasError,
                   speedData, mapFetches, isApiLoaded, videoId, vpIsLoading, vpHasError,
                   playerRef, playerReady, playerState, livePlayers,
                   playbackIntervalRef, activeTimers>>
    /\ UNCHANGED <<loaderVars, callVars>>

\* if (isMounted) in the map fetch's .then and .catch
MapNeverUnmounted(f) == TRUE
MapIsMounted(f) == f.alive

\* the map fetch's .then / .catch
MapFetchHoverTime(f, path) ==
    IF ~f.ca /\ f.cmht = Null THEN path[1].s
    ELSE IF f.ca /\ f.cg # Null THEN f.cg
    ELSE IF f.cmht = Null THEN path[1].s
    ELSE mapHoverTime

MapFetchResolve(f, ok) ==
    /\ BagIn(f, mapFetches)
    /\ mapFetches' = mapFetches (-) One(f)
    /\ IF MapIsMounted(f)
       THEN LET path == ServerTrackPath(f.sid, f.lap)
            IN /\ mapIsLoading' = FALSE
               /\ mapHasError' = IF ok THEN mapHasError ELSE TRUE
               /\ speedData' = IF ok THEN ServerSpeedData(f.sid, f.lap) ELSE speedData
               /\ Apply(Settle(Cur,
                               IF ok
                               THEN [Cur EXCEPT !.track = path,
                                                !.mht = MapFetchHoverTime(f, path),
                                                !.lastValid = IF f.cmht # Null THEN f.cmht
                                                              ELSE lastValidMapHoverTimeRef]
                               ELSE Cur,
                               FALSE, FALSE))
       ELSE /\ UNCHANGED <<mapIsLoading, mapHasError, speedData>>
            /\ Apply([Cur EXCEPT !.drop = "map"])
    /\ UNCHANGED <<mapInitPending, hookVars, dashVars, dvVars, isApiLoaded, videoId, vpIsLoading,
                   vpHasError, playerRef, playerReady, playerState, livePlayers,
                   playbackIntervalRef, activeTimers>>
    /\ UNCHANGED <<loaderVars, callVars>>

\* ------------------------------------------------------- VideoPlayer: events
WidgetStates == {"unstarted", "buffering", "playing", "paused", "ended", "cued"}

FreshTimer(v) == CHOOSE i \in 1..(MaxTimers + 1) : i \notin v.timers /\ i # v.handle

\* onStateChange, PLAYING: setIsSyncActive(true); clear the old interval; setInterval
OnPlayingNoClear(v) ==
    [v EXCEPT !.a = TRUE, !.handle = FreshTimer(v), !.timers = v.timers \cup {FreshTimer(v)}]
OnPlaying(v) ==
    LET c == ClearInterval(v)
    IN [c EXCEPT !.a = TRUE, !.handle = FreshTimer(c), !.timers = c.timers \cup {FreshTimer(c)}]

\* onStateChange, PAUSED or ENDED: setIsSyncActive(false); clear and null the handle
OnStoppedNoClear(v) == [v EXCEPT !.a = FALSE, !.handle = 0]
OnStopped(v) == [ClearInterval(v) EXCEPT !.a = FALSE, !.handle = 0]

\* onError: setIsLoading(false); setHasError(true); setIsSyncActive(false); clearInterval
OnErrorKeepsSync(v) ==
    [ClearInterval(v) EXCEPT !.loading = FALSE, !.error = TRUE, !.st = "error"]
OnError(v) ==
    [ClearInterval(v) EXCEPT !.loading = FALSE, !.error = TRUE, !.a = FALSE, !.st = "error"]

\* the interval callback: w is the tree, end the effect's endTime
IntervalTickNoWrite(w, end) ==
    IF w.player THEN [w EXCEPT !.flag = FALSE] ELSE w
IntervalTickNoPause(w, end) ==
    IF w.player THEN [w EXCEPT !.vt = w.pos, !.flag = FALSE] ELSE w
IntervalTickPauseOnOld(w, end) ==
    IF w.player
    THEN [w EXCEPT !.vt = w.pos, !.flag = FALSE,
                   !.cmds = IF end # Null /\ end # 0 /\ w.vt >= end
                            THEN Append(w.cmds, PauseVideo("tick")) ELSE w.cmds]
    ELSE w
IntervalTickForcesStop(w, end) ==
    IF w.player
    THEN [w EXCEPT !.vt = w.pos, !.flag = FALSE,
                   !.a = IF end # Null /\ end # 0 /\ w.pos >= end THEN FALSE ELSE w.a,
                   !.cmds = IF end # Null /\ end # 0 /\ w.pos >= end
                            THEN Append(w.cmds, PauseVideo("tick")) ELSE w.cmds]
    ELSE w
IntervalTick(w, end) ==
    IF w.player
    THEN [w EXCEPT !.vt = w.pos, !.flag = FALSE,
                   !.cmds = IF end # Null /\ end # 0 /\ w.pos >= end
                            THEN Append(w.cmds, PauseVideo("tick")) ELSE w.cmds]
    ELSE w

\* onReady: setIsLoading(false); seek to the seekToTime prop unless a manual
\* seek is flagged; clear the flag
OnReadyAlwaysSeek(w, seek, auto) ==
    IF seek # 0 /\ ~auto
    THEN [w EXCEPT !.player = TRUE, !.flag = FALSE, !.pos = seek,
                   !.cmds = Append(w.cmds, SeekTo(seek, "ready"))]
    ELSE [w EXCEPT !.player = TRUE, !.flag = FALSE]
OnReady(w, seek, auto) ==
    IF seek # 0 /\ ~auto /\ ~w.flag
    THEN [w EXCEPT !.player = TRUE, !.flag = FALSE, !.pos = seek,
                   !.cmds = Append(w.cmds, SeekTo(seek, "ready"))]
    ELSE [w EXCEPT !.player = TRUE, !.flag = FALSE]

\* window.onYouTubeIframeAPIReady: isApiLoaded stands for window.YT being
\* there; a mounted VideoPlayer's isApiLoaded state follows it.
YouTubeApiReady ==
    /\ ~isApiLoaded
    /\ isApiLoaded' = TRUE
    /\ IF ContentShown
       THEN LET v == PlayerEffect(VCur, VideoUrl(sessionData), TRUE)
            IN /\ ApplyVideo(v)
               /\ Apply(Settle(Cur, WithVideo(Cur, v, videoSeekToTime), FALSE, FALSE))
       ELSE /\ Apply(Cur)
            /\ UNCHANGED <<videoId, vpIsLoading, vpHasError, playerRef, playerReady,
                           playerState, livePlayers, playbackIntervalRef, activeTimers>>
    /\ UNCHANGED <<mapInitPending, hookVars, dashVars, dvVars, mapIsLoading, mapHasError, speedData, mapFetches>>
    /\ UNCHANGED <<loaderVars, callVars>>

PlayerOnReady ==
    /\ playerRef # 0 /\ ~playerReady /\ playerState # "error"
    /\ playerReady' = TRUE
    /\ vpIsLoading' = FALSE
    /\ Apply(Settle(Cur, OnReady(Cur, videoSeekToTime, shouldAutoplayVideo), FALSE, FALSE))
    /\ UNCHANGED <<mapInitPending, hookVars, dashVars, dvVars, mapIsLoading, mapHasError, speedData,
                   mapFetches, isApiLoaded, videoId, vpHasError, playerRef, playerState,
                   livePlayers, playbackIntervalRef, activeTimers>>
    /\ UNCHANGED <<loaderVars, callVars>>

PlayerOnStateChange(st) ==
    /\ playerRef # 0 /\ playerReady /\ playerState # "error"
    /\ st \in WidgetStates /\ st # playerState
    /\ st = "playing" => Cardinality(activeTimers \ {playbackIntervalRef}) < MaxTimers
    /\ LET v == IF st = "playing" THEN OnPlaying(VCur)
                ELSE IF st \in {"paused", "ended"} THEN OnStopped(VCur)
                ELSE VCur
           w1 == IF st \in {"paused", "ended"}
                 THEN [WithVideo(Cur, v, 0) EXCEPT !.vt = playerPos]
                 ELSE WithVideo(Cur, v, 0)
       IN /\ ApplyVideo([v EXCEPT !.st = st])
          /\ Apply(Settle(Cur, w1, FALSE, FALSE))
    /\ UNCHANGED <<mapInitPending, hookVars, dashVars, dvVars, mapIsLoading, mapHasError, speedData,
                   mapFetches, isApiLoaded>>
    /\ UNCHANGED <<loaderVars, callVars>>

PlayerOnError ==
    /\ playerRef # 0 /\ playerState # "error"
    /\ LET v == OnError(VCur)
       IN /\ ApplyVideo(v)
          /\ Apply(Settle(Cur, [Cur EXCEPT !.a = v.a], FALSE, FALSE))
    /\ UNCHANGED <<mapInitPending, hookVars, dashVars, dvVars, mapIsLoading, mapHasError, speedData,
                   mapFetches, isApiLoaded>>
    /\ UNCHANGED <<loaderVars, callVars>>

\* the widget's position moves: playback, or a scrub on its own controls
PlayerProgress(p) ==
    /\ playerRef # 0 /\ playerReady /\ playerState \in {"playing", "paused"}
    /\ p \in Times /\ p # playerPos
    /\ Apply([Cur EXCEPT !.pos = p])
    /\ UNCHANGED <<mapInitPending, hookVars, dashVars, dvVars, mapIsLoading, mapHasError, speedData,
                   mapFetches, isApiLoaded, videoId, vpIsLoading, vpHasError, playerRef,
                   playerReady, playerState, livePlayers, playbackIntervalRef, activeTimers>>
    /\ UNCHANGED <<loaderVars, callVars>>

\* one firing of a running interval timer
Tick(id) ==
    /\ id \in activeTimers
    /\ Apply(Settle(Cur, IntervalTick(Cur, videoEndTime), FALSE, FALSE))
    /\ UNCHANGED <<mapInitPending, hookVars, dashVars, dvVars, mapIsLoading, mapHasError, speedData,
                   mapFetches, isApiLoaded, videoId, vpIsLoading, vpHasError, playerRef,
                   playerReady, playerState, livePlayers, playbackIntervalRef, activeTimers>>
    /\ UNCHANGED <<loaderVars, callVars>>

\* handleRetry of the video view; the button is there when showError
VideoRetry ==
    /\ ContentShown
    /\ vpHasError \/ (~vpIsLoading /\ videoId = 0 /\ ~VideoUrl(sessionData).null)
    /\ vpIsLoading' = TRUE
    /\ vpHasError' = FALSE
    /\ videoId' = VideoIdNumber(GetYouTubeVideoId(VideoUrl(sessionData)))
    /\ Apply(Cur)
    /\ UNCHANGED <<mapInitPending, hookVars, dashVars, dvVars, mapIsLoading, mapHasError, speedData,
                   mapFetches, isApiLoaded, playerRef, playerReady, playerState,
                   livePlayers, playbackIntervalRef, activeTimers>>
    /\ UNCHANGED <<loaderVars, callVars>>

\* ------------------------------------------------------------ hover events
\* document.dispatchEvent from a DOM handler: the listeners that are attached
\* run at once, the video's first (its effect attaches first).
DeliverNowQueued(w, ev) == [w EXCEPT !.evs = Append(w.evs, Heard(ev, w.vpOn, w.mapOn))]
DeliverNow(w, ev) ==
    LET v == IF w.vpOn THEN HandleGraphHover(w, ev) ELSE w
    IN [v EXCEPT !.mht = IF w.mapOn THEN HandleChartHover(NoPend, ev).val ELSE v.mht,
                 !.evs = Append(v.evs, Heard(ev, w.vpOn, w.mapOn))]

\* handleMouseMove; m is the pointer's domain x, Null when it is over the margins
HandleMouseMoveIgnoresSync(w, m) ==
    IF m # Null /\ Len(w.data) > 0
    THEN LET n == FindNearestPointForMouseEvent(w.data, m)
             currentTime == w.data[n].label
             h == [w EXCEPT !.hover = [x |-> currentTime, idx |-> n], !.tip = TRUE]
         IN IF ShouldDispatch(w.last, currentTime)
            THEN DeliverNow([h EXCEPT !.last = currentTime],
                            DispatchHoverTimeEvent(currentTime, "mouse"))
            ELSE h
    ELSE [w EXCEPT !.tip = FALSE]
HandleMouseMove(w, m) ==
    IF w.a THEN w
    ELSE IF m # Null /\ Len(w.data) > 0
    THEN LET n == FindNearestPointForMouseEvent(w.data, m)
             currentTime == w.data[n].label
             h == [w EXCEPT !.hover = [x |-> currentTime, idx |-> n], !.tip = TRUE]
         IN IF ShouldDispatch(w.last, currentTime)
            THEN DeliverNow([h EXCEPT !.last = currentTime],
                            DispatchHoverTimeEvent(currentTime, "mouse"))
            ELSE h
    ELSE [w EXCEPT !.tip = FALSE]

\* handleMouseLeave
HandleMouseLeave(w) == IF w.a THEN w ELSE [w EXCEPT !.tip = FALSE]

videoRest == <<isApiLoaded, videoId, vpIsLoading, vpHasError, playerRef, playerReady,
               playerState, livePlayers, playbackIntervalRef, activeTimers>>
mapRest == <<mapIsLoading, mapHasError, speedData, mapFetches, mapInitPending>>

ChartMouseMove(m) ==
    /\ ChartShown /\ dimensions
    /\ m = Null \/ (m \in Times /\ m >= MinX(Cur.data) /\ m <= MaxX(Cur.data))
    /\ Apply(Settle(Cur, HandleMouseMove(Cur, m), FALSE, FALSE))
    /\ UNCHANGED <<hookVars, dashVars, dvVars, mapRest, videoRest>>
    /\ UNCHANGED <<loaderVars, callVars>>

ChartMouseLeave ==
    /\ ChartShown /\ dimensions
    /\ Apply(Settle(Cur, HandleMouseLeave(Cur), FALSE, FALSE))
    /\ UNCHANGED <<hookVars, dashVars, dvVars, mapRest, videoRest>>
    /\ UNCHANGED <<loaderVars, callVars>>

\* the resize listener's updateDimensions: b says whether the container has a size
WindowResize(b) ==
    /\ ChartShown /\ b # dimensions
    /\ Apply(Settle(Cur, [Cur EXCEPT !.dims = b], FALSE, FALSE))
    /\ UNCHANGED <<hookVars, dashVars, dvVars, mapRest, videoRest>>
    /\ UNCHANGED <<loaderVars, callVars>>

\* Any script of the page can dispatch chartHoverTime on the document; the
\* detail carries a time and whatever userInitiated the publisher put there.
HoverFlags == {"true", "false", "undefined"}
DocumentHoverEvent(time, userInitiated) ==
    /\ ContentShown
    /\ time \in Times \cup {Null} /\ userInitiated \in HoverFlags
    /\ Apply(Settle(Cur, DeliverNow(Cur, [time |-> time, userInitiated |-> userInitiated,
                                          src |-> "external"]), FALSE, FALSE))
    /\ UNCHANGED <<hookVars, dashVars, dvVars, mapRest, videoRest>>
    /\ UNCHANGED <<loaderVars, callVars>>

\* ------------------------------------------------------- Maps script loader
\* loadGoogleMapsAPIPromise is 0 for null, else the number of the promise
\* (promises are numbered as they are made); scriptElement is the state of
\* the Maps <script> element in document.head ("none" when there is none),
\* window.google.maps exists once it is "loaded"; scriptLoads counts the
\* script elements appended.
LoaderCur ==
    [promise |-> loadGoogleMapsAPIPromise, made |-> loadGoogleMapsAPIPromise,
     el |-> scriptElement, loads |-> scriptLoads]

\* loadScript: resolve() at once if a Maps script element exists, else append one
LoadScript(l) ==
    IF l.el # "none" THEN l ELSE [l EXCEPT !.el = "loading", !.loads = l.loads + 1]

\* getLoadGoogleMapsPromise
GetLoadGoogleMapsPromise(l) ==
    IF l.promise = 0
    THEN LoadScript([l EXCEPT !.promise = l.made + 1, !.made = l.made + 1])
    ELSE l

\* The first promise is the one whose loadScript appended the element: it
\* settles with the element.  Every later promise was made while the element
\* was in the head, so it is resolved from the start.
PromiseState(p, el) ==
    IF p = 1
    THEN (IF el = "loading" THEN "pending"
          ELSE IF el = "loaded" THEN "resolved" ELSE "rejected")
    ELSE "resolved"

ApplyLoader(l) ==
    /\ loadGoogleMapsAPIPromise' = l.promise
    /\ scriptElement' = l.el
    /\ scriptLoads' = l.loads

\* ------------------------------------------------------------ map instance
\* getLoadGoogleMapsPromise().then(() => { if (isMounted) initializeMap() }),
\* or its .catch.  initializeMap is the function of the mount render, so the
\* trackPath it reads is the initial empty one.
MapInitialize(ok) ==
    /\ ContentShown /\ mapInitPending
    /\ IF PromiseState(mapInitPromise, scriptElement) = "pending"
       THEN scriptElement' = IF ok THEN "loaded" ELSE "failed"
       ELSE ok = (scriptElement = "loaded") /\ UNCHANGED scriptElement
    /\ mapInitPending' = FALSE
    /\ mapIsLoading' = IF ok /\ mapInstanceRef THEN mapIsLoading ELSE FALSE
    /\ mapHasError' = IF ok /\ mapInstanceRef THEN mapHasError ELSE ~ok
    /\ Apply(Settle(Cur, [Cur EXCEPT !.inst = ok \/ mapInstanceRef,
                                     !.ready = ok /\ mapInstanceRef],
                    FALSE, ok /\ ~mapInstanceRef))
    /\ UNCHANGED <<hookVars, dashVars, dvVars, speedData, mapFetches, videoRest>>
    /\ UNCHANGED <<loadGoogleMapsAPIPromise, scriptLoads, mapInitPromise, retryFetches>>
    /\ UNCHANGED callVars

\* script.onload / script.onerror with no mounted map waiting for the promise
ScriptSettles(ok) ==
    /\ scriptElement = "loading"
    /\ ~(ContentShown /\ mapInitPending /\ mapInitPromise = 1)
    /\ scriptElement' = IF ok THEN "loaded" ELSE "failed"
    /\ Apply(Cur)
    /\ UNCHANGED <<hookVars, dashVars, dvVars, mapRest, videoRest>>
    /\ UNCHANGED <<loadGoogleMapsAPIPromise, scriptLoads, mapInitPromise, retryFetches>>
    /\ UNCHANGED callVars

\* handleRetry of the map; the button is there when hasError && !isLoading.
\* The promise it makes is resolved when it returns, so its .then runs at
\* once: initializeMap() of the render that showed the button, then the
\* track and speed requests (with no lap selected, empty track and speed
\* data instead); the setTimeout of initializeMap follows.
StartRetryFetch(S, sid, lap) == S (+) One([sid |-> sid, lap |-> lap, mounted |-> TRUE])
MapRetry ==
    /\ ContentShown /\ mapHasError /\ ~mapIsLoading
    /\ loadGoogleMapsAPIPromise <= MaxRetries
    /\ HasRoom(retryFetches)
    /\ LET l == GetLoadGoogleMapsPromise([LoaderCur EXCEPT !.promise = 0])
           settled == PromiseState(l.promise, l.el) = "resolved"
           google == l.el = "loaded"
           initialTime == IF isSyncActive /\ graphTime # Null THEN graphTime
                          ELSE trackPath[1].s
           marks == settled /\ google /\ Len(trackPath) > 0
           w1 == [RemoveHoverMarker(Cur) EXCEPT
                      !.inst = settled /\ google, !.ready = FALSE,
                      !.track = IF settled /\ selectedLap = 0 THEN <<>> ELSE trackPath,
                      !.mht = IF marks THEN initialTime ELSE mapHoverTime,
                      !.lastValid = IF marks THEN initialTime ELSE lastValidMapHoverTimeRef]
           w2 == Settle(Cur, w1, FALSE, settled /\ google)
       IN /\ ApplyLoader(l)
          /\ mapIsLoading' = ~settled
          /\ mapHasError' = (settled /\ ~google)
          /\ retryFetches' = IF settled /\ selectedLap # 0
                             THEN StartRetryFetch(retryFetches, sessionId, selectedLap)
                             ELSE retryFetches
          /\ speedData' = IF settled /\ selectedLap = 0 THEN <<>> ELSE speedData
          /\ Apply(IF marks THEN UpdateHoverMarker(w2, initialTime) ELSE w2)
    /\ UNCHANGED <<hookVars, dashVars, dvVars, mapFetches, mapInitPending,
                   mapInitPromise, videoRest>>
    /\ UNCHANGED callVars

\* the .then / .catch after the retry's Promise.all; nothing checks isMounted,
\* and a component that is gone ignores the writes
MapRetryFetchResolve(f, ok) ==
    /\ BagIn(f, retryFetches)
    /\ retryFetches' = retryFetches (-) One(f)
    /\ IF f.mounted
       THEN /\ mapIsLoading' = FALSE
            /\ mapHasError' = IF ok THEN mapHasError ELSE TRUE
            /\ speedData' = IF ok THEN ServerSpeedData(f.sid, f.lap) ELSE speedData
            /\ Apply(Settle(Cur,
                            IF ok THEN [Cur EXCEPT !.track = ServerTrackPath(f.sid, f.lap)]
                            ELSE Cur,
                            FALSE, FALSE))
       ELSE /\ UNCHANGED <<mapIsLoading, mapHasError, speedData>>
            /\ Apply([Cur EXCEPT !.drop = "retry"])
    /\ UNCHANGED <<hookVars, dashVars, dvVars, mapFetches, mapInitPending, videoRest>>
    /\ UNCHANGED <<loadGoogleMapsAPIPromise, scriptElement, scriptLoads, mapInitPromise>>
    /\ UNCHANGED callVars

\* the map's 'idle' listener: setIsMapReadyForDrawing(true)
MapIdle ==
    /\ ContentShown /\ mapInstanceRef /\ ~isMapReadyForDrawing
    /\ Apply(Settle(Cur, [Cur EXCEPT !.ready = TRUE], FALSE, FALSE))
    /\ UNCHANGED <<hookVars, dashVars, dvVars, mapRest, videoRest>>
    /\ UNCHANGED <<loaderVars, callVars>>

\* ------------------------------------------------- route and useSessionData
\* The subtree under !isLoading && !error && sessionData goes away: the
\* chart's unmount clean-up may publish, the player effect's clean-up runs,
\* requests of the removed components lose their component.
UnmountContent(w) ==
    [w EXCEPT !.shown = FALSE, !.mapOn = FALSE, !.vpOn = FALSE, !.a = FALSE,
              !.track = <<>>, !.inst = FALSE, !.ready = FALSE, !.mht = Null,
              !.lastValid = Null, !.marker = NoMarker, !.markers = 0, !.player = FALSE,
              !.pos = 0,
              !.flag = FALSE]

UnmountVideo(v) ==
    [PlayerEffectCleanup(v) EXCEPT !.vid = 0, !.loading = TRUE, !.error = FALSE, !.flag = FALSE]

Orphan(f) == [f EXCEPT !.mounted = FALSE]
Orphaned(S) == BagOfAll(Orphan, S)

\* VideoPlayer mounts with isApiLoaded false; its API effect sets it at once
\* when window.YT is there, and the player effect runs again.
MountVideo(v, url, api) ==
    IF api THEN PlayerEffect(PlayerEffect(v, url, FALSE), url, TRUE)
    ELSE PlayerEffect(v, url, FALSE)

\* if (isMounted) in loadData
HookIsMounted(f) == f.alive

StartHookFetch(S, sid) ==
    Unmounted(S) (+) One([sid |-> sid, alive |-> TRUE])

\* useParams gives another sessionId: the hook's effect runs again
Navigate(sid) ==
    /\ dashMounted /\ sid \in Sessions /\ sid # sessionId
    /\ HasRoom(hookFetches)
    /\ sessionId' = sid
    /\ hookIsLoading' = TRUE
    /\ hookError' = FALSE
    /\ hookFetches' = StartHookFetch(hookFetches, sid)
    /\ IF ContentShown
       THEN /\ ApplyVideo(UnmountVideo(VCur))
            /\ Apply(Settle(Cur, UnmountContent(Cur), FALSE, FALSE))
            /\ yAxis' = 0
            /\ dvIsLoading' = TRUE
            /\ dvError' = FALSE
            /\ channelData' = <<>>
            /\ dvFetches' = Orphaned(dvFetches)
            /\ mapIsLoading' = TRUE
            /\ mapHasError' = FALSE
            /\ speedData' = <<>>
            /\ mapFetches' = Unmounted(mapFetches)
            /\ mapInitPending' = FALSE
            /\ mapInitPromise' = 0
            /\ retryFetches' = Orphaned(retryFetches)
       ELSE /\ Apply(Cur)
            /\ UNCHANGED <<dvVars, mapRest, videoId, vpIsLoading, vpHasError, playerRef,
                           playerReady, playerState, livePlayers, playbackIntervalRef,
                           activeTimers, mapInitPromise, retryFetches>>
    /\ UNCHANGED <<dashMounted, sessionData, dashVars, isApiLoaded>>
    /\ UNCHANGED <<loadGoogleMapsAPIPromise, scriptElement, scriptLoads>>
    /\ UNCHANGED callVars

\* loadData after its await, each write guarded by isMounted.  When the data
\* arrive the subtree mounts: DataVisualization with yAxis = channels[0] and
\* its spinner, VideoPlayer and its player effect, MapComponent with its API
\* load and fetch effects; DashboardContent's effects pick the first lap if
\* none is selected and compute the video props and the lap start.
HookFetchResolve(f, ok) ==
    /\ BagIn(f, hookFetches)
    /\ hookFetches' = hookFetches (-) One(f)
    /\ IF HookIsMounted(f) /\ ok
       THEN LET lap == IF selectedLap = 0 THEN FirstLapOption(f.sid) ELSE selectedLap
                e == LapEffect(f.sid, lap)
                v == MountVideo(VCur, VideoUrl(f.sid), isApiLoaded)
                w1 == [Cur EXCEPT !.ls = e.ls, !.mapOn = TRUE, !.vpOn = TRUE]
            IN /\ HasRoom(dvFetches) /\ HasRoom(mapFetches)
               /\ sessionData' = f.sid
               /\ hookIsLoading' = FALSE
               /\ hookError' = hookError
               /\ selectedLap' = lap
               /\ ApplyProps(e)
               /\ yAxis' = FirstChannel(f.sid)
               /\ dvIsLoading' = TRUE
               /\ dvError' = FALSE
               /\ channelData' = <<>>
               /\ dvFetches' = StartDvFetch(dvFetches, f.sid, lap, FirstChannel(f.sid))
               /\ mapIsLoading' = TRUE
               /\ mapHasError' = FALSE
               /\ speedData' = <<>>
               /\ mapFetches' = StartMapFetch(mapFetches, f.sid, lap, FALSE, Null, Null)
               /\ mapInitPending' = TRUE
               /\ ApplyLoader(GetLoadGoogleMapsPromise(LoaderCur))
               /\ mapInitPromise' = GetLoadGoogleMapsPromise(LoaderCur).promise
               /\ UNCHANGED retryFetches
               /\ ApplyVideo(v)
               /\ Apply(Settle(Cur, WithVideo(w1, v, e.seek), FALSE, FALSE))
       ELSE /\ hookIsLoading' = IF HookIsMounted(f) THEN FALSE ELSE hookIsLoading
            /\ hookError' = IF HookIsMounted(f) THEN TRUE ELSE hookError
            /\ Apply([Cur EXCEPT !.drop = IF HookIsMounted(f) THEN "none" ELSE "hook"])
            /\ UNCHANGED <<sessionData, dashVars, dvVars, mapRest, videoId, vpIsLoading,
                           vpHasError, playerRef, playerReady, playerState, livePlayers,
                           playbackIntervalRef, activeTimers, loaderVars>>
    /\ UNCHANGED <<dashMounted, sessionId, isApiLoaded>>
    /\ UNCHANGED callVars

\* the route leaves the dashboard: SyncProvider and everything under it go away
DashboardUnmount ==
    /\ dashMounted
    /\ dashMounted' = FALSE
    /\ sessionId' = 0
    /\ sessionData' = 0
    /\ hookIsLoading' = TRUE
    /\ hookError' = FALSE
    /\ hookFetches' = Unmounted(hookFetches)
    /\ selectedLap' = 0
    /\ ApplyProps(LapEffect(0, 0))
    /\ ApplyVideo(UnmountVideo(VCur))
    /\ Apply([Settle(Cur, UnmountContent(Cur), FALSE, FALSE) EXCEPT !.vt = 0, !.ls = 0])
    /\ yAxis' = 0
    /\ dvIsLoading' = TRUE
    /\ dvError' = FALSE
    /\ channelData' = <<>>
    /\ dvFetches' = Orphaned(dvFetches)
    /\ mapIsLoading' = TRUE
    /\ mapHasError' = FALSE
    /\ speedData' = <<>>
    /\ mapFetches' = Unmounted(mapFetches)
    /\ mapInitPending' = FALSE
    /\ mapInitPromise' = 0
    /\ retryFetches' = Orphaned(retryFetches)
    /\ UNCHANGED <<isApiLoaded, loadGoogleMapsAPIPromise, scriptElement, scriptLoads>>
    /\ UNCHANGED callVars

\* the route enters /:sessionId : a new SyncProvider and DashboardContent
DashboardMount(sid) ==
    /\ ~dashMounted /\ sid \in Sessions
    /\ HasRoom(hookFetches)
    /\ dashMounted' = TRUE
    /\ sessionId' = sid
    /\ hookFetches' = StartHookFetch(hookFetches, sid)
    /\ Apply(Cur)
    /\ UNCHANGED <<sessionData, hookIsLoading, hookError, dashVars, dvVars, mapRest, videoRest>>
    /\ UNCHANGED <<loaderVars, callVars>>

\* ------------------------------------------- SyncProvider's setters, called
\* with any value by whoever holds the context
allButSync == <<hookVars, dashVars, dvVars, mapRest, videoRest>>

SetVideoTime(t) ==
    /\ dashMounted /\ t \in Times /\ t # videoTime
    /\ Apply(Settle(Cur, [Cur EXCEPT !.vt = t], FALSE, FALSE))
    /\ UNCHANGED allButSync
    /\ UNCHANGED <<loaderVars, callVars>>

SetLapStartVideoTime(t) ==
    /\ dashMounted /\ t \in Times /\ t # lapStartVideoTime
    /\ Apply(Settle(Cur, [Cur EXCEPT !.ls = t], FALSE, FALSE))
    /\ UNCHANGED allButSync
    /\ UNCHANGED <<loaderVars, callVars>>

SetIsSyncActive(b) ==
    /\ dashMounted /\ b \in BOOLEAN /\ b # isSyncActive
    /\ Apply(Settle(Cur, [Cur EXCEPT !.a = b], FALSE, FALSE))
    /\ UNCHANGED allButSync
    /\ UNCHANGED <<loaderVars, callVars>>

\* ------------------------------------------------- a helper called on its own
\* callArgs names the function and holds its arguments; callResult is what it
\* returned, NotCalled before the call.
NoCall == [fn |-> "none"]
NotCalled == [returned |-> FALSE]
Returned(v) == [returned |-> TRUE, threw |-> FALSE, value |-> v]

\* ---------------------------------------------- Dashboard.tsx: sync-time strings
\* A string is the sequence of its characters.  A number is a record: NaN, or
\* a whole number of milliseconds.
Digits == <<"0", "1", "2", "3", "4", "5", "6", "7", "8", "9">>
IsDigit(c) == \E d \in 1..10 : Digits[d] = c
DigitValue(c) == (CHOOSE d \in 1..10 : Digits[d] = c) - 1
NaN == [nan |-> TRUE, ms |-> 0]
Num(n) == [nan |-> FALSE, ms |-> n]

\* parseInt(str, 10): leading blanks, a sign, then the longest run of digits;
\* NaN when there is no digit there
RECURSIVE ParseDigits(_, _, _, _)
ParseDigits(str, i, acc, seen) ==
    IF i <= Len(str) /\ IsDigit(str[i])
    THEN ParseDigits(str, i + 1, 10 * acc + DigitValue(str[i]), TRUE)
    ELSE IF seen THEN Num(acc) ELSE NaN
RECURSIVE SkipBlanks(_, _)
SkipBlanks(str, i) == IF i <= Len(str) /\ str[i] = " " THEN SkipBlanks(str, i + 1) ELSE i
ParseInt(str) ==
    LET i == SkipBlanks(str, 1)
        signed == i <= Len(str) /\ str[i] \in {"-", "+"}
        n == ParseDigits(str, IF signed THEN i + 1 ELSE i, 0, FALSE)
    IN IF signed /\ str[i] = "-" /\ ~n.nan THEN Num(-n.ms) ELSE n

\* parseInt(timeParts[k], 10) where timeParts[k] may be undefined
ParseIntAt(parts, k) == IF k <= Len(parts) THEN ParseInt(parts[k]) ELSE NaN

\* secondsPart[1] ? parseInt(secondsPart[1].substring(0, 3), 10) / 1000 : 0,
\* in milliseconds
MillisecondsDropped(secondsPart) == Num(0)
Milliseconds(secondsPart) ==
    IF Len(secondsPart) >= 2 /\ secondsPart[2] # <<>>
    THEN ParseInt(SubSeq(secondsPart[2], 1, Min(3, Len(secondsPart[2]))))
    ELSE Num(0)

\* convertSyncTimeToSeconds; syncTime is [null, chars].  timeParts[2].split
\* throws when there are fewer than three parts, and the catch returns 0.
ConvertSyncTimeToSeconds(syncTime) ==
    IF syncTime.null \/ syncTime.chars = <<>> THEN Num(0)
    ELSE LET timeParts == Split(syncTime.chars, ":")
             hours == ParseIntAt(timeParts, 1)
             minutes == ParseIntAt(timeParts, 2)
         IN IF Len(timeParts) < 3 THEN Num(0)
            ELSE LET secondsPart == Split(timeParts[3], ".")
                     seconds == ParseIntAt(secondsPart, 1)
                     milliseconds == Milliseconds(secondsPart)
                 IN IF hours.nan \/ minutes.nan \/ seconds.nan \/ milliseconds.nan
                    THEN NaN
                    ELSE Num(hours.ms * 3600000 + minutes.ms * 60000
                             + seconds.ms * 1000 + milliseconds.ms)

CallConvertSyncTimeToSeconds ==
    /\ callArgs.fn = "convertSyncTimeToSeconds" /\ ~callResult.returned
    /\ callResult' = Returned(ConvertSyncTimeToSeconds(callArgs.syncTime))
    /\ UNCHANGED <<syncVars, hookVars, dashVars, dvVars, chartVars, mapVars, videoVars,
                   commands, broadcasts, discarded, loaderVars, callArgs>>

\* the sync-time strings tried: fields joined by ":", the third with a fraction
Fields ==
    {<<>>, <<"0", "0">>, <<"0", "1">>, <<"0", "5">>, <<"a", "b", "c">>,
     <<"a">>, <<"b">>, <<"c">>, <<"1", "x">>, <<"-", "1">>}
Fractions ==
    {<<>>, <<".">>, <<".", "5", "0", "0">>, <<".", "5">>,
     <<".", "0", "0", "5", "9">>, <<".", "x">>}
SyncTimeStrings ==
    Fields
    \cup {a \o <<":">> \o b : a \in Fields, b \in Fields}
    \cup {a \o <<":">> \o b \o <<":">> \o c \o f :
             a \in Fields, b \in Fields, c \in Fields, f \in Fractions}
    \cup {a \o <<":">> \o b \o <<":">> \o c \o <<":", "0", "0">> :
             a \in Fields, b \in Fields, c \in Fields}
ConvertCalls ==
    {[fn |-> "convertSyncTimeToSeconds", syncTime |-> [null |-> TRUE, chars |-> <<>>]]}
    \cup {[fn |-> "convertSyncTimeToSeconds", syncTime |-> [null |-> FALSE, chars |-> str]] :
             str \in SyncTimeStrings}

\* the URLs tried: a scheme or none, a host or none, a path and a query
Https == <<"h", "t", "t", "p", "s", ":", "/", "/">>
Www == <<"w", "w", "w", ".">>
Watch == <<"/", "w", "a", "t", "c", "h">>
UrlPrefixes == {<<>>, Https}
UrlHosts ==
    {<<>>, YoutuBe, YoutubeCom, Www \o YoutubeCom, <<"n", "o", "t">> \o YoutubeCom,
     <<"v", "i", "m", "e", "o", ".", "c", "o", "m">>}
VideoIds == {<<"a">>, <<"a", "b">>}
UrlPaths == {<<>>, <<"/">>, Watch} \cup {<<"/">> \o id : id \in VideoIds}
UrlQueries ==
    {<<>>, <<"?", "t", "=", "1">>}
    \cup {<<"?", "v", "=">> \o id : id \in VideoIds}
    \cup {<<"?", "t", "=", "1", "&", "v", "=">> \o id : id \in VideoIds}
    \cup {<<"?", "v", "=">> \o id \o <<"&", "t", "=", "1">> : id \in VideoIds}
Url(prefix, host, path, query) == Chars(prefix \o host \o path \o query)
UrlCalls ==
    {[fn |-> "getYouTubeVideoId", url |-> NullString]}
    \cup {[fn |-> "getYouTubeVideoId", url |-> Url(p, h, pa, q)] :
             p \in UrlPrefixes, h \in UrlHosts, pa \in UrlPaths, q \in UrlQueries}

CallGetYouTubeVideoId ==
    /\ callArgs.fn = "getYouTubeVideoId" /\ ~callResult.returned
    /\ callResult' = Returned(GetYouTubeVideoId(callArgs.url))
    /\ UNCHANGED <<syncVars, hookVars, dashVars, dvVars, chartVars, mapVars, videoVars,
                   commands, broadcasts, discarded, loaderVars, callArgs>>

\* ------------------------------------------------------ sessionApi.ts: fetches
\* A response is [status, statusText, text, json]: text is the body that
\* response.text() resolves with (null when reading it fails), json what
\* response.json() resolves with (0 when the body is not JSON).  A call that
\* ended with a throw has threw set and the Error as its value.
Threw(e) == [returned |-> TRUE, threw |-> TRUE, value |-> e]
Error(message) == [name |-> "Error", message |-> message]
SyntaxError == [name |-> "SyntaxError", message |-> <<>>]
\* Number.prototype.toString of a natural number
RECURSIVE NumberToString(_)
NumberToString(n) ==
    IF n < 10 THEN <<Digits[n + 1]>>
    ELSE Append(NumberToString(n \div 10), Digits[(n % 10) + 1])
\* response.ok
ResponseOk(response) == response.status >= 200 /\ response.status <= 299
HttpErrorText == <<"H", "T", "T", "P", " ", "e", "r", "r", "o", "r", "!", " ",
                   "s", "t", "a", "t", "u", "s", ":", " ">>
FailedToFetch == <<"F", "a", "i", "l", "e", "d", " ", "t", "o", " ", "f", "e", "t", "c", "h">>
\* `HTTP error! status: ${response.status} - ${response.statusText || 'Failed to fetch'}`
HttpErrorMessage(response) ==
    HttpErrorText \o NumberToString(response.status) \o <<" ", "-", " ">>
    \o (IF response.statusText # <<>> THEN response.statusText ELSE FailedToFetch)
\* fetchSessionData after await fetch(apiEndpoint); errorBody is read and
\* logged, the Error is made from status and statusText
FetchSessionData(response) ==
    IF ~ResponseOk(response) THEN Threw(Error(HttpErrorMessage(response)))
    ELSE IF response.json = 0 THEN Threw(SyntaxError)
    ELSE Returned(response.json)
\* fetchLapChannelData after await fetch(apiEndpoint)
FetchLapChannelData(response) ==
    IF ~ResponseOk(response) THEN Threw(Error(HttpErrorMessage(response)))
    ELSE IF response.json = 0 THEN Threw(SyntaxError)
    ELSE Returned(response.json)

CallFetchSessionData ==
    /\ callArgs.fn = "fetchSessionData" /\ ~callResult.returned
    /\ callResult' = FetchSessionData(callArgs.response)
    /\ UNCHANGED <<syncVars, hookVars, dashVars, dvVars, chartVars, mapVars, videoVars,
                   commands, broadcasts, discarded, loaderVars, callArgs>>
CallFetchLapChannelData ==
    /\ callArgs.fn = "fetchLapChannelData" /\ ~callResult.returned
    /\ callResult' = FetchLapChannelData(callArgs.response)
    /\ UNCHANGED <<syncVars, hookVars, dashVars, dvVars, chartVars, mapVars, videoVars,
                   commands, broadcasts, discarded, loaderVars, callArgs>>

\* fetchLapTrackPath.  A channel is the array response.json() gives: each
\* element is a sample {d, s}, or null.
Sample(d, s) == [null |-> FALSE, d |-> d, s |-> s]
NullSample == [null |-> TRUE, d |-> NaN, s |-> 0]
\* isNaN(x)
IsNaN(x) == x.nan
HttpErrorFetching(channel) ==
    <<"H", "T", "T", "P", " ", "e", "r", "r", "o", "r", " ",
      "f", "e", "t", "c", "h", "i", "n", "g", " ">> \o channel
    \o <<"!", " ", "s", "t", "a", "t", "u", "s", ":", " ">>
LatitudeText == <<"l", "a", "t", "i", "t", "u", "d", "e">>
LongitudeText == <<"l", "o", "n", "g", "i", "t", "u", "d", "e">>

\* the loop as it would be if it pushed every pair below minLength
RECURSIVE MergeTrackPathUnfiltered(_, _, _, _, _)
MergeTrackPathUnfiltered(latData, lngData, minLength, i, path) ==
    IF ~(i < minLength) THEN path
    ELSE MergeTrackPathUnfiltered(latData, lngData, minLength, i + 1,
             Append(path, [lat |-> latData[i + 1].d, lng |-> lngData[i + 1].d,
                                s |-> latData[i + 1].s]))

\* for (let i = 0; i < minLength; i++) { if (...) trackPath.push({lat, lng, s}) }
\* (array index i is position i + 1 of the sequence; path is trackPath so far)
RECURSIVE MergeTrackPath(_, _, _, _, _)
MergeTrackPath(latData, lngData, minLength, i, path) ==
    IF ~(i < minLength) THEN path
    ELSE MergeTrackPath(latData, lngData, minLength, i + 1,
             IF /\ ~latData[i + 1].null /\ ~lngData[i + 1].null
                /\ ~IsNaN(latData[i + 1].d) /\ ~IsNaN(lngData[i + 1].d)
             THEN Append(path, [lat |-> latData[i + 1].d, lng |-> lngData[i + 1].d,
                                     s |-> latData[i + 1].s])
             ELSE path)

\* fetchLapTrackPath after await Promise.all([fetch(...), fetch(...)])
FetchLapTrackPath(latResponse, lngResponse) ==
    IF ~ResponseOk(latResponse)
    THEN Threw(Error(HttpErrorFetching(LatitudeText) \o NumberToString(latResponse.status)))
    ELSE IF ~ResponseOk(lngResponse)
    THEN Threw(Error(HttpErrorFetching(LongitudeText) \o NumberToString(lngResponse.status)))
    ELSE IF ~latResponse.parses \/ ~lngResponse.parses THEN Threw(SyntaxError)
    ELSE Returned(MergeTrackPath(latResponse.json, lngResponse.json,
                                 Min(Len(latResponse.json), Len(lngResponse.json)),
                                 0, <<>>))

CallFetchLapTrackPath ==
    /\ callArgs.fn = "fetchLapTrackPath" /\ ~callResult.returned
    /\ callResult' = FetchLapTrackPath(callArgs.latResponse, callArgs.lngResponse)
    /\ UNCHANGED <<syncVars, hookVars, dashVars, dvVars, chartVars, mapVars, videoVars,
                   commands, broadcasts, discarded, loaderVars, callArgs>>

\* the channels tried: latitude samples with two coordinates and two times,
\* longitude samples with a time no latitude sample has
LatSamples == {Sample(Num(1), 1), Sample(Num(2), 2), Sample(NaN, 1), NullSample}
LngSamples == {Sample(d, 9) : d \in {Num(3), NaN}} \cup {NullSample}
LatChannels == UNION {[1..n -> LatSamples] : n \in 0..MaxSamples}
LngChannels == UNION {[1..n -> LngSamples] : n \in 0..MaxSamples}
ChannelResponse(status, parses, json) == [status |-> status, parses |-> parses, json |-> json]
TrackCalls ==
    {[fn |-> "fetchLapTrackPath", latResponse |-> ChannelResponse(200, TRUE, lat),
      lngResponse |-> ChannelResponse(200, TRUE, lng)] :
        lat \in LatChannels, lng \in LngChannels}
    \cup {[fn |-> "fetchLapTrackPath", latResponse |-> ChannelResponse(a, p, <<>>),
           lngResponse |-> ChannelResponse(b, q, <<>>)] :
              a \in {200, 404}, b \in {200, 500}, p \in BOOLEAN, q \in BOOLEAN}

\* the responses tried
Statuses == {200, 204, 299, 300, 304, 400, 404, 500, 503}
StatusTexts == {<<>>, <<"O", "K">>, <<"N", "o", "t", " ", "F", "o", "u", "n", "d">>}
BodyTexts ==
    {NullString, Chars(<<>>), Chars(<<"b", "o", "o", "m">>),
     Chars(<<"N", "o", "t", " ", "F", "o", "u", "n", "d">>)}
Responses == [status : Statuses, statusText : StatusTexts, text : BodyTexts, json : {0, 1}]
FetchCalls == [fn : {"fetchSessionData", "fetchLapChannelData"}, response : Responses]

\* ------------------------------------------------------------ specifications
\* The dashboard route has just rendered for some session id: the provider
\* holds its defaults, the hook's request is on its way.
InitProgram ==
    /\ videoTime = 0 /\ lapStartVideoTime = 0 /\ isSyncActive = FALSE /\ graphTime = Null
    /\ dashMounted = TRUE /\ sessionId \in Sessions /\ sessionData = 0
    /\ hookIsLoading = TRUE /\ hookError = FALSE
    /\ hookFetches = One([sid |-> sessionId, alive |-> TRUE])
    /\ selectedLap = 0 /\ videoSeekToTime = 0 /\ videoEndTime = Null
    /\ shouldAutoplayVideo = FALSE
    /\ yAxis = 0 /\ dvIsLoading = TRUE /\ dvError = FALSE /\ channelData = <<>>
    /\ dvFetches = EmptyBag
    /\ dimensions = FALSE /\ lastDispatchedGraphTimeRef = Null /\ hoverPoint = NoHover
    /\ tooltipVisible = FALSE
    /\ mapIsLoading = TRUE /\ mapHasError = FALSE /\ trackPath = <<>> /\ speedData = <<>>
    /\ mapFetches = EmptyBag /\ mapInstanceRef = FALSE /\ isMapReadyForDrawing = FALSE
    /\ mapHoverTime = Null /\ lastValidMapHoverTimeRef = Null /\ hoverMarkerRef = NoMarker
    /\ liveMarkers = 0 /\ mapInitPending = FALSE
    /\ isApiLoaded = FALSE /\ videoId = 0 /\ vpIsLoading = TRUE /\ vpHasError = FALSE
    /\ playerRef = 0 /\ playerReady = FALSE /\ playerState = "none" /\ playerPos = 0
    /\ livePlayers = 0 /\ playbackIntervalRef = 0 /\ activeTimers = {}
    /\ playerManuallySeekedRef = FALSE
    /\ commands = <<>> /\ broadcasts = <<>> /\ discarded = "none"
    /\ loadGoogleMapsAPIPromise = 0 /\ scriptElement = "none" /\ scriptLoads = 0
    /\ mapInitPromise = 0 /\ retryFetches = EmptyBag

Init == InitProgram /\ callArgs = NoCall /\ callResult = NotCalled

Next ==
    \/ \E f \in BagToSet(hookFetches), ok \in BOOLEAN : HookFetchResolve(f, ok)
    \/ \E sid \in Sessions : Navigate(sid)
    \/ DashboardUnmount
    \/ \E sid \in Sessions : DashboardMount(sid)
    \/ \E lap \in Laps : SelectLap(lap)
    \/ \E ch \in Channels : SelectYAxis(ch)
    \/ \E f \in BagToSet(dvFetches), ok \in BOOLEAN : DvFetchResolve(f, ok)
    \/ \E f \in BagToSet(mapFetches), ok \in BOOLEAN : MapFetchResolve(f, ok)
    \/ \E ok \in BOOLEAN : MapInitialize(ok)
    \/ \E ok \in BOOLEAN : ScriptSettles(ok)
    \/ MapIdle
    \/ MapRetry
    \/ \E f \in BagToSet(retryFetches), ok \in BOOLEAN : MapRetryFetchResolve(f, ok)
    \/ YouTubeApiReady
    \/ PlayerOnReady
    \/ \E st \in WidgetStates : PlayerOnStateChange(st)
    \/ PlayerOnError
    \/ \E p \in Times : PlayerProgress(p)
    \/ \E id \in activeTimers : Tick(id)
    \/ VideoRetry
    \/ \E m \in Times \cup {Null} : ChartMouseMove(m)
    \/ ChartMouseLeave
    \/ \E b \in BOOLEAN : WindowResize(b)
    \/ \E t \in Times \cup {Null}, ui \in HoverFlags : DocumentHoverEvent(t, ui)

Spec == Init /\ [][Next]_vars

\* the provider alone, its setters called in any order with any values
NextSync ==
    \/ \E t \in Times : SetVideoTime(t)
    \/ \E t \in Times : SetLapStartVideoTime(t)
    \/ \E b \in BOOLEAN : SetIsSyncActive(b)

SpecSync == Init /\ [][NextSync]_vars

\* Lap and channel selection and the requests they start, in a dashboard
\* whose YouTube and Maps scripts have not arrived.
NextFetch ==
    \/ \E f \in BagToSet(hookFetches), ok \in BOOLEAN : HookFetchResolve(f, ok)
    \/ \E lap \in Laps : SelectLap(lap)
    \/ \E ch \in Channels : SelectYAxis(ch)
    \/ \E f \in BagToSet(dvFetches), ok \in BOOLEAN : DvFetchResolve(f, ok)
    \/ \E f \in BagToSet(mapFetches), ok \in BOOLEAN : MapFetchResolve(f, ok)

SpecFetch == Init /\ [][NextFetch]_vars

\* Routes: the session changes, the dashboard goes away and comes back, laps
\* change, and the session and track requests resolve in any order; the
\* channel requests succeed.
NextRoute ==
    \/ \E f \in BagToSet(hookFetches), ok \in BOOLEAN : HookFetchResolve(f, ok)
    \/ \E sid \in Sessions : Navigate(sid)
    \/ DashboardUnmount
    \/ \E sid \in Sessions : DashboardMount(sid)
    \/ \E lap \in Laps : SelectLap(lap)
    \/ \E f \in BagToSet(dvFetches) : DvFetchResolve(f, TRUE)
    \/ \E f \in BagToSet(mapFetches), ok \in BOOLEAN : MapFetchResolve(f, ok)

SpecRoute == Init /\ [][NextRoute]_vars

\* The player's life: creation, its events, ticks, a lap change that creates
\* it again, manual seeks, the dashboard leaving and coming back; the chart
\* and track requests stay pending.
NextPlayer ==
    \/ \E f \in BagToSet(hookFetches) : HookFetchResolve(f, TRUE)
    \/ \E lap \in Laps : SelectLap(lap)
    \/ YouTubeApiReady
    \/ PlayerOnReady
    \/ \E st \in WidgetStates : PlayerOnStateChange(st)
    \/ PlayerOnError
    \/ \E p \in Times : PlayerProgress(p)
    \/ \E id \in activeTimers : Tick(id)
    \/ VideoRetry
    \/ DashboardUnmount
    \/ \E sid \in Sessions : DashboardMount(sid)
    \/ \E t \in {0, Null} : DocumentHoverEvent(t, "true")

SpecPlayer == Init /\ [][NextPlayer]_vars

\* The video's hover listener: hover events of any publisher, with the chart
\* on screen and the player playing or paused.
NextListener ==
    \/ \E f \in BagToSet(hookFetches) : HookFetchResolve(f, TRUE)
    \/ \E f \in BagToSet(dvFetches) : DvFetchResolve(f, TRUE)
    \/ YouTubeApiReady
    \/ PlayerOnReady
    \/ \E st \in {"playing", "paused"} : PlayerOnStateChange(st)
    \/ \E p \in Times : PlayerProgress(p)
    \/ \E id \in activeTimers : Tick(id)
    \/ \E t \in Times \cup {Null}, ui \in HoverFlags : DocumentHoverEvent(t, ui)

SpecListener == Init /\ [][NextListener]_vars

\* The pointer over the chart, with the map drawn and the player playing or
\* paused.
NextHover ==
    \/ \E f \in BagToSet(hookFetches) : HookFetchResolve(f, TRUE)
    \/ \E f \in BagToSet(dvFetches) : DvFetchResolve(f, TRUE)
    \/ \E f \in BagToSet(mapFetches) : MapFetchResolve(f, TRUE)
    \/ MapInitialize(TRUE)
    \/ MapIdle
    \/ YouTubeApiReady
    \/ PlayerOnReady
    \/ \E st \in {"playing", "paused"} : PlayerOnStateChange(st)
    \/ \E p \in Times : PlayerProgress(p)
    \/ \E id \in activeTimers : Tick(id)
    \/ \E m \in Times \cup {Null} : ChartMouseMove(m)
    \/ ChartMouseLeave
    \/ \E b \in BOOLEAN : WindowResize(b)

SpecHover == Init /\ [][NextHover]_vars

\* Manual seeks and lap changes: the user seeks by hover events and changes
\* the lap back and forth, so the player is created again, plays and pauses;
\* its position moves by seeks only.  The channel requests succeed, the track
\* requests fail.
NextSeek ==
    \/ \E f \in BagToSet(hookFetches) : HookFetchResolve(f, TRUE)
    \/ \E lap \in Laps : SelectLap(lap)
    \/ \E f \in BagToSet(dvFetches) : DvFetchResolve(f, TRUE)
    \/ \E f \in BagToSet(mapFetches) : MapFetchResolve(f, FALSE)
    \/ YouTubeApiReady
    \/ PlayerOnReady
    \/ \E st \in {"playing", "paused"} : PlayerOnStateChange(st)
    \/ \E id \in activeTimers : Tick(id)
    \/ \E t \in {0, Null} : DocumentHoverEvent(t, "true")

SpecSeek == Init /\ [][NextSeek]_vars

\* Playback up to the lap's end: the player plays, buffers and pauses, its
\* position only moves forward, and nothing else happens on the page.  The
\* interval timer keeps firing while it runs (setInterval), and a widget that
\* was asked to pause reports PAUSED (the widget honours pauseVideo).
HonourPause ==
    /\ \E j \in DOMAIN commands : commands[j].op = "pauseVideo"
    /\ PlayerOnStateChange("paused")

\* Whether committing w changes any variable a commit writes.
Changes(w) ==
    <<w.a, w.vt, w.ls, G(w), w.dims, w.last, w.hover, w.tip, w.track, w.inst, w.ready, w.mht,
      w.lastValid, w.marker, w.markers, w.pos, w.flag, w.cmds, w.evs, w.drop>>
    # <<isSyncActive, videoTime, lapStartVideoTime, graphTime, dimensions,
        lastDispatchedGraphTimeRef,
        hoverPoint, tooltipVisible, trackPath, mapInstanceRef, isMapReadyForDrawing,
        mapHoverTime, lastValidMapHoverTimeRef, hoverMarkerRef, liveMarkers, playerPos,
        playerManuallySeekedRef, commands, broadcasts, discarded>>

\* The interval callback is due and running it changes something.
TickDue ==
    /\ activeTimers # {}
    /\ Changes(Settle(Cur, IntervalTick(Cur, videoEndTime), FALSE, FALSE))
TickFires == \E id \in activeTimers : Tick(id)

\* The widget has been told to pause and is not paused yet.
PauseDue ==
    /\ \E j \in DOMAIN commands : commands[j].op = "pauseVideo"
    /\ playerRef # 0 /\ playerReady /\ playerState \notin {"error", "paused"}

\* The hover channel with both subscribers mounted: events of the pointer,
\* of the chart's effects and of other scripts, while playback starts and
\* stops (which attaches the listeners again).
NextBroadcast ==
    \/ \E f \in BagToSet(hookFetches) : HookFetchResolve(f, TRUE)
    \/ \E f \in BagToSet(dvFetches) : DvFetchResolve(f, TRUE)
    \/ \E f \in BagToSet(mapFetches) : MapFetchResolve(f, TRUE)
    \/ YouTubeApiReady
    \/ PlayerOnReady
    \/ \E st \in {"playing", "paused"} : PlayerOnStateChange(st)
    \/ \E p \in {0, MaxTime - 1} : PlayerProgress(p)
    \/ \E id \in activeTimers : Tick(id)
    \/ \E m \in Times \cup {Null} : ChartMouseMove(m)
    \/ \E t \in {1, Null}, ui \in HoverFlags : DocumentHoverEvent(t, ui)

SpecBroadcast == Init /\ [][NextBroadcast]_vars

\* The chart's data: lap changes whose requests overlap, so that data arrives
\* in a mounted chart, the pointer over the chart, playback on and off.
NextChartData ==
    \/ \E f \in BagToSet(hookFetches) : HookFetchResolve(f, TRUE)
    \/ \E lap \in Laps : SelectLap(lap)
    \/ \E f \in BagToSet(dvFetches), ok \in BOOLEAN : DvFetchResolve(f, ok)
    \/ \E m \in Times \cup {Null} : ChartMouseMove(m)
    \/ YouTubeApiReady
    \/ PlayerOnReady
    \/ \E st \in {"playing", "paused"} : PlayerOnStateChange(st)

SpecChartData == Init /\ [][NextChartData]_vars

\* The map's script loader: the script loads or fails, the track requests
\* succeed or fail, the user retries, the dashboard leaves and comes back.
NextLoader ==
    \/ \E f \in BagToSet(hookFetches) : HookFetchResolve(f, TRUE)
    \/ \E f \in BagToSet(mapFetches), ok \in BOOLEAN : MapFetchResolve(f, ok)
    \/ \E ok \in BOOLEAN : MapInitialize(ok)
    \/ \E ok \in BOOLEAN : ScriptSettles(ok)
    \/ MapIdle
    \/ MapRetry
    \/ \E f \in BagToSet(retryFetches), ok \in BOOLEAN : MapRetryFetchResolve(f, ok)
    \/ DashboardUnmount
    \/ \E sid \in Sessions : DashboardMount(sid)

SpecLoader == Init /\ [][NextLoader]_vars


\* A view fails while the others work: the channel, track and script requests
\* succeed or fail in any order, channel requests overlap, the player plays
\* and pauses, the pointer moves over the chart.
NextFailure ==
    \/ \E f \in BagToSet(hookFetches) : HookFetchResolve(f, TRUE)
    \/ \E ch \in Channels : SelectYAxis(ch)
    \/ \E f \in BagToSet(dvFetches), ok \in BOOLEAN : DvFetchResolve(f, ok)
    \/ \E f \in BagToSet(mapFetches), ok \in BOOLEAN : MapFetchResolve(f, ok)
    \/ \E ok \in BOOLEAN : MapInitialize(ok)
    \/ MapIdle
    \/ YouTubeApiReady
    \/ PlayerOnReady
    \/ \E st \in {"playing", "paused"} : PlayerOnStateChange(st)
    \/ \E id \in activeTimers : Tick(id)
    \/ \E m \in {0, MaxTime - 1} : ChartMouseMove(m)

SpecFailure == Init /\ [][NextFailure]_vars


\* The map's retry while the selection changes: the script fails, the user
\* retries, then changes the lap or the session before the retry's requests
\* resolve; the channel requests stay pending.
NextRetry ==
    \/ \E f \in BagToSet(hookFetches) : HookFetchResolve(f, TRUE)
    \/ \E sid \in Sessions : Navigate(sid)
    \/ \E lap \in Laps : SelectLap(lap)
    \/ \E f \in BagToSet(mapFetches), ok \in BOOLEAN : MapFetchResolve(f, ok)
    \/ \E ok \in BOOLEAN : MapInitialize(ok)
    \/ MapIdle
    \/ MapRetry
    \/ \E f \in BagToSet(retryFetches), ok \in BOOLEAN : MapRetryFetchResolve(f, ok)

SpecRetry == Init /\ [][NextRetry]_vars

\* ---------------------------------------------------- projectors on their own
\* A projector is run on a chart or a map that holds the samples `times`:
\* chart rows labelled with them, track points timed with them, each row and
\* point told apart by its index.  viewport says that the chart has measured
\* its container, or that the map instance exists; remembered is the time the
\* component remembers (lastDispatchedGraphTimeRef, lastValidMapHoverTimeRef).
SampleTimes == {0, UnitsPerTenth, 2 * UnitsPerTenth}
QueryTimes == 0..(3 * UnitsPerTenth)
SampleSeqs == UNION {[1..n -> SampleTimes] : n \in 0..3}
LabelData(times) == [i \in 1..Len(times) |-> [label |-> times[i], sales |-> i]]
TrackData(times) == [i \in 1..Len(times) |-> [s |-> times[i], lat |-> i, lng |-> i]]
Projectors == {"chartSyncEffect", "handleMouseMove", "updateHoverMarker"}
ProjectorCalls ==
    [fn : Projectors, times : SampleSeqs, time : QueryTimes \cup {Null},
     viewport : BOOLEAN, remembered : {Null, UnitsPerTenth}]
ProjectorTree(c) ==
    [Cur EXCEPT !.a = (c.fn = "chartSyncEffect" /\ c.time # Null),
                !.vt = IF c.time = Null THEN 0 ELSE c.time,
                !.shown = TRUE, !.dims = c.viewport, !.data = LabelData(c.times),
                !.last = c.remembered,
                !.track = TrackData(c.times), !.inst = c.viewport,
                !.lastValid = c.remembered]

\* the component as the last call left it; calls counts the calls made
Calls == IF callResult.returned THEN callResult.calls ELSE 0
Before ==
    IF callResult.returned THEN [callResult.value EXCEPT !.fx = <<>>, !.evs = <<>>]
    ELSE ProjectorTree(callArgs)
ReturnTree(w) ==
    /\ callResult' = [returned |-> TRUE, threw |-> FALSE, calls |-> Calls + 1,
                      value |-> w, first |-> IF Calls = 0 THEN w ELSE callResult.first]
    /\ UNCHANGED <<syncVars, hookVars, dashVars, dvVars, chartVars, mapVars, videoVars,
                   commands, broadcasts, discarded, loaderVars, callArgs>>

\* each projector is run twice in succession on the same samples and time
CallChartSyncEffect ==
    /\ callArgs.fn = "chartSyncEffect" /\ Calls < 2
    /\ ReturnTree(ChartSyncEffect(Before))
CallHandleMouseMove ==
    /\ callArgs.fn = "handleMouseMove" /\ Calls < 2
    /\ ReturnTree(HandleMouseMove(Before, callArgs.time))
CallUpdateHoverMarker ==
    /\ callArgs.fn = "updateHoverMarker" /\ Calls < 2
    /\ ReturnTree(UpdateHoverMarker(Before, callArgs.time))

\* a helper called with arguments drawn from the sets above
InitCalls ==
    /\ InitProgram
    /\ callArgs \in ConvertCalls \cup ProjectorCalls \cup UrlCalls \cup FetchCalls
                   \cup TrackCalls
    /\ callResult = NotCalled
NextCalls ==
    \/ CallConvertSyncTimeToSeconds
    \/ CallGetYouTubeVideoId
    \/ CallFetchSessionData
    \/ CallFetchLapChannelData
    \/ CallFetchLapTrackPath
    \/ CallChartSyncEffect
    \/ CallHandleMouseMove
    \/ CallUpdateHoverMarker
SpecCalls == InitCalls /\ [][NextCalls]_vars

NextEndTime ==
    \/ \E f \in BagToSet(hookFetches) : HookFetchResolve(f, TRUE)
    \/ YouTubeApiReady
    \/ PlayerOnReady
    \/ \E st \in {"playing", "buffering", "paused"} : PlayerOnStateChange(st)
    \/ \E p \in Times : p > playerPos /\ PlayerProgress(p)
    \/ \E id \in activeTimers : Tick(id)

\* Playback with fair scheduling: the interval keeps calling back while it is
\* set (weak fairness of the tick), and a widget that keeps being told to pause
\* reports the pause (strong fairness of the reported pause).  WF_vars(TickFires)
\* and SF_vars(HonourPause) are written out, with TickDue and PauseDue for
\* ENABLED <<TickFires>>_vars and ENABLED <<HonourPause>>_vars.
SpecEndTime ==
    /\ Init /\ [][NextEndTime]_vars
    /\ ([]<>(~TickDue) \/ []<><<TickFires>>_vars)
    /\ (<>[](~PauseDue) \/ []<><<HonourPause>>_vars)

\* ------------------------------------------------------------------ claims

\* C1: in every state reached by any sequence of setVideoTime,
\* setLapStartVideoTime and setIsSyncActive calls, graphTime is null when
\* isSyncActive is false and max(0, videoTime - lapStartVideoTime) when true.
C1_GraphTimeDerived ==
    /\ ~isSyncActive => graphTime = Null
    /\ isSyncActive =>
        /\ graphTime >= 0
        /\ graphTime >= videoTime - lapStartVideoTime
        /\ graphTime = 0 \/ graphTime = videoTime - lapStartVideoTime

\* the clamp at work: sync active and the video before the lap's start
C1_Witness == isSyncActive /\ videoTime < lapStartVideoTime /\ graphTime = 0

\* a channel request that is pending for another lap or channel than the
\* one selected now
StaleChannelFetch(f) == f.mounted /\ (f.lap # selectedLap \/ f.ch # yAxis)

\* C2: a channel-data request that was pending when the lap or channel
\* changed never has its result applied to channelData, whichever of the
\* requests resolves first.
C2_StaleFetchNeverApplied ==
    [][\A f \in BagToSet(dvFetches) :
          (CopiesIn(f, dvFetches') < CopiesIn(f, dvFetches) /\ StaleChannelFetch(f))
          => channelData' = channelData]_vars

\* C3: from the lap change until the new lap's request resolves, the chart's
\* channel samples and the map's track samples hold nothing of the lap
\* selected before.
C3_PriorSamplesCleared ==
    /\ (\E f \in BagToSet(dvFetches) : f.mounted /\ f.lap = selectedLap /\ f.ch = yAxis)
       => \A sid \in Sessions, lap \in Laps, ch \in Channels :
            channelData = ServerChannelData(sid, lap, ch) => lap = selectedLap
    /\ (\E f \in BagToSet(mapFetches) : f.alive /\ f.lap = selectedLap)
       => \A sid \in Sessions, lap \in Laps :
            trackPath = ServerTrackPath(sid, lap) => lap = selectedLap

\* C4: a request of the session hook or of the map's fetch effect is live
\* only while its session and lap are the current selection and its component
\* is mounted, and the outcome of a request that is no longer live changes
\* neither data, error nor loading flag.
C4_LiveIsCurrent ==
    /\ \A f \in BagToSet(hookFetches) : f.alive => (dashMounted /\ f.sid = sessionId)
    /\ \A f \in BagToSet(mapFetches) :
         f.alive => (ContentShown /\ f.sid = sessionId /\ f.lap = selectedLap)
C4_DiscardStep ==
    /\ \A f \in BagToSet(hookFetches) :
         (CopiesIn(f, hookFetches') < CopiesIn(f, hookFetches) /\ ~f.alive)
         => UNCHANGED <<sessionData, hookIsLoading, hookError>>
    /\ \A f \in BagToSet(mapFetches) :
         (CopiesIn(f, mapFetches') < CopiesIn(f, mapFetches) /\ ~f.alive)
         => UNCHANGED <<trackPath, speedData, mapIsLoading, mapHasError, mapHoverTime,
                        lastValidMapHoverTimeRef>>
C4_StaleOutcomeDiscarded == [](C4_LiveIsCurrent) /\ [][C4_DiscardStep]_vars

\* the outcome of a track request of an earlier selection has just been
\* dropped while the map holds a track
C4_Witness == discarded = "map" /\ ContentShown /\ Len(trackPath) > 0

\* C5: at most one polling loop runs, it is the one the handle names, and a
\* step that starts a loop leaves none of the earlier loops running.
C5_OneLoopState ==
    /\ Cardinality(activeTimers) <= 1
    /\ activeTimers \subseteq {playbackIntervalRef}
C5_SinglePollingLoop ==
    [](C5_OneLoopState)
    /\ [][activeTimers' \ activeTimers # {} => activeTimers' \cap activeTimers = {}]_vars

\* a loop started while the handle still named the previous one
C5_Witness == playbackIntervalRef = 2 /\ activeTimers = {2} /\ playerState = "playing"

\* C6: a hover event whose userInitiated is not true makes the video's
\* listener send no command and set no manual-seek flag, and such an event
\* from another publisher leaves videoTime and the player's position alone;
\* the chart's own sync-driven events are among them.
C6_NonUserEventsIgnored ==
    [][(\E i \in DOMAIN broadcasts' : broadcasts'[i].video)
       /\ (\A i \in DOMAIN broadcasts' : broadcasts'[i].userInitiated # "true")
       => /\ \A j \in DOMAIN commands' : commands'[j].by # "hover"
          /\ playerManuallySeekedRef' => playerManuallySeekedRef
          /\ broadcasts'[1].src = "external" => UNCHANGED <<videoTime, playerPos>>]_vars

\* the listener of a ready, playing player has been handed a sync-driven event
C6_Witness ==
    /\ \E i \in DOMAIN broadcasts : broadcasts[i].src = "sync" /\ broadcasts[i].video
    /\ playerRef # 0 /\ playerReady /\ isSyncActive

\* C7: every hover event the chart publishes from pointer movement carries
\* the time of the sample nearest the pointer and userInitiated = true.
C7_MouseEventsUserInitiated ==
    \A i \in DOMAIN broadcasts :
        broadcasts[i].src = "mouse"
        => /\ broadcasts[i].userInitiated = "true"
           /\ broadcasts[i].time = channelData[hoverPoint.idx].s

\* C8: a user-initiated hover event with a numeric time t that finds a ready
\* player makes the listener seek to lapStartVideoTime + t, write that to
\* videoTime and set the manual-seek flag; with a null time or no ready
\* player it sends nothing and leaves videoTime and the flag as they were.
C8_UserSeekStep ==
    LET t == broadcasts'[1].time IN
    IF t # Null /\ playerRef # 0 /\ playerReady
    THEN /\ Len(commands') > 0
         /\ commands'[1] = SeekTo(lapStartVideoTime + t, "hover")
         /\ videoTime' = lapStartVideoTime + t
         /\ playerManuallySeekedRef'
    ELSE /\ commands' = <<>>
         /\ UNCHANGED <<videoTime, playerManuallySeekedRef>>
C8_UserSeek ==
    [][(Len(broadcasts') > 0 /\ broadcasts'[1].src = "external"
        /\ broadcasts'[1].userInitiated = "true") => C8_UserSeekStep]_vars

\* a user-initiated event with a time after the lap's start has been served
C8_Witness ==
    /\ Len(broadcasts) > 0 /\ broadcasts[1].src = "external"
    /\ broadcasts[1].userInitiated = "true" /\ broadcasts[1].time > 0
    /\ Len(commands) > 0 /\ commands[1].op = "seekTo"
    /\ videoTime = lapStartVideoTime + broadcasts[1].time
    /\ playerManuallySeekedRef

\* the map is drawn: instance, idle, and a track
MapDrawn == mapInstanceRef /\ isMapReadyForDrawing /\ Len(trackPath) > 0

\* p is the position of a track sample none is nearer to time t than
NearestTrackPoint(p, t) ==
    \E i \in DOMAIN trackPath :
        /\ p = [lat |-> trackPath[i].lat, lng |-> trackPath[i].lng]
        /\ \A j \in DOMAIN trackPath : Abs(trackPath[i].s - t) <= Abs(trackPath[j].s - t)

\* C9: whenever the pointer is over a sample's time t while isSyncActive is
\* false, the marker of a drawn map goes to the track sample nearest t and
\* the video's listener sends no seek.
C9_HoverMovesMarker ==
    [][\A m \in Times :
          (ChartMouseMove(m) /\ ~isSyncActive /\ MapDrawn)
          => /\ NearestTrackPoint(hoverMarkerRef', hoverPoint'.x)
             /\ \A j \in DOMAIN commands' : commands'[j].op # "seekTo"]_vars


\* C10: every transition of the player into Playing makes isSyncActive true
\* and leaves a polling loop running, and every tick of a loop writes the
\* player's position to videoTime.
C10_PlayingStartsPolling ==
    [][/\ (playerState' = "playing" /\ playerState # "playing")
          => (isSyncActive' /\ playbackIntervalRef' \in activeTimers')
       /\ \A id \in activeTimers : Tick(id) => videoTime' = playerPos]_vars

\* playing, in sync, the loop running, and its tick has just written the
\* player's position, which has reached the lap's end, to videoTime
C10_Witness ==
    /\ playerState = "playing" /\ isSyncActive /\ playbackIntervalRef \in activeTimers
    /\ videoTime = playerPos /\ playerPos > 0
    /\ \E j \in DOMAIN commands : commands[j].by = "tick"

\* C11: every transition of the player into Paused or Ended stops the polling
\* loop, makes isSyncActive false and writes the position the player reports
\* at that moment to videoTime.
C11_StoppedEndsPolling ==
    [][(playerState' \in {"paused", "ended"} /\ playerState' # playerState)
       => /\ activeTimers' = {}
          /\ playbackIntervalRef' = 0
          /\ ~isSyncActive'
          /\ videoTime' = playerPos
          /\ playerPos' = playerPos]_vars

\* the player has ended at the last position while videoTime, written by no
\* tick since the position moved, was brought up to it by the final write
C11_Witness ==
    /\ playerState = "ended" /\ ~isSyncActive /\ activeTimers = {}
    /\ playbackIntervalRef = 0 /\ videoTime = playerPos /\ playerPos = MaxTime
    /\ commands = <<>>

\* C12: a player error, from whatever state the player is in, stops polling,
\* makes isSyncActive false, sets hasError and clears the loading flag, and
\* leaves videoTime and lapStartVideoTime as they were.
C12_ErrorStopsPolling ==
    [][PlayerOnError
       => /\ activeTimers' = {}
          /\ ~isSyncActive'
          /\ vpHasError' /\ ~vpIsLoading'
          /\ UNCHANGED <<videoTime, lapStartVideoTime>>]_vars

\* an error has struck a player whose loop had written a position
C12_Witness ==
    /\ playerState = "error" /\ vpHasError /\ ~vpIsLoading /\ ~isSyncActive
    /\ activeTimers = {} /\ playbackIntervalRef # 0 /\ videoTime > lapStartVideoTime

\* C13: a retry runs the player's creation again: with the API loaded and a
\* valid video id it leaves a newly created player, the prior one disposed.
C13_RetryRecreatesPlayer ==
    [][(VideoRetry /\ isApiLoaded /\ VideoIdNumber(GetYouTubeVideoId(VideoUrl(sessionData))) # 0)
       => /\ playerRef' # 0 /\ ~playerReady' /\ playerState' = "unstarted"
          /\ livePlayers' = 1]_vars

\* C14: a step that creates the player again, because seekToTime, endTime or
\* autoplay changed under a player that exists, leaves one new instance, the
\* manual-seek flag false and isSyncActive false; isSyncActive stays false
\* while the instance has not reached Ready.
C14_RecreationResets ==
    /\ [](playerRef # 0 /\ ~playerReady => ~isSyncActive)
    /\ [][(playerRef # 0 /\ playerRef' # 0
           /\ <<videoSeekToTime, videoEndTime, shouldAutoplayVideo>>'
              # <<videoSeekToTime, videoEndTime, shouldAutoplayVideo>>)
          => /\ ~playerReady' /\ playerState' = "unstarted" /\ livePlayers' = 1
             /\ ~playerManuallySeekedRef'
             /\ ~isSyncActive']_vars

\* C15: a Ready that finds the manual-seek flag set sends no seek to the
\* seekToTime prop; the flag is false after every Ready and after every
\* polling tick.
C15_FlagStep ==
    /\ PlayerOnReady
       => /\ ~playerManuallySeekedRef'
          /\ playerManuallySeekedRef => \A j \in DOMAIN commands' : commands'[j].by # "ready"
    /\ \A id \in activeTimers : Tick(id) => ~playerManuallySeekedRef'
C15_ManualSeekFlag == [][C15_FlagStep]_vars

\* a Ready has just been processed with the flag set: for a lap that does not
\* autoplay and starts after 0 no seek was sent, and the flag is clear
C15_Witness ==
    /\ playerRef # 0 /\ playerReady /\ playerState = "unstarted"
    /\ videoSeekToTime # 0 /\ ~shouldAutoplayVideo
    /\ commands = <<>> /\ broadcasts = <<>> /\ ~playerManuallySeekedRef
    /\ BagCardinality(dvFetches) = MaxFetches /\ BagCardinality(mapFetches) = MaxFetches

\* C16: lapStartVideoTime changes only in a step that changes the selected
\* lap or the session data, and never in a state where isSyncActive is true.
C16_LapStartStable ==
    [][(lapStartVideoTime' # lapStartVideoTime /\ dashMounted')
       => /\ ~isSyncActive
          /\ selectedLap' # selectedLap \/ sessionData' # sessionData]_vars

\* C17: a polling tick that finds the player's position at or beyond endTime
\* sends a pause command and changes neither isSyncActive nor the polling
\* loop nor the player's state.
C17_EndPauseLeavesSync ==
    [][\A id \in activeTimers :
          (Tick(id) /\ videoEndTime # Null /\ playerPos >= videoEndTime)
          => /\ \E j \in DOMAIN commands' : commands'[j] = PauseVideo("tick")
             /\ UNCHANGED <<isSyncActive, activeTimers, playbackIntervalRef, playerState>>]_vars

\* a tick has just asked a playing player that is past endTime to pause,
\* and sync and the loop are still on
C17_Witness ==
    /\ playerState = "playing" /\ isSyncActive /\ playbackIntervalRef \in activeTimers
    /\ videoEndTime # Null /\ playerPos >= videoEndTime
    /\ commands = <<PauseVideo("tick")>>

\* C18: once the video is playing with its position at or beyond the lap's
\* endTime, eventually isSyncActive is false, no polling loop runs and
\* videoTime holds the player's position, which is at or after endTime.
C18_EndTimeStopsPlayback ==
    (playerState = "playing" /\ videoEndTime # Null /\ playerPos >= videoEndTime)
    ~> (/\ ~isSyncActive /\ activeTimers = {}
        /\ videoTime = playerPos /\ playerPos >= videoEndTime)

\* the player has paused at or after the lap's end and the final write has
\* put its position in videoTime
C18_Witness ==
    /\ playerState = "paused" /\ ~isSyncActive /\ activeTimers = {}
    /\ videoEndTime # Null /\ playerPos >= videoEndTime /\ videoTime = playerPos

\* C19: in one tick of the polling loop the position is written to videoTime
\* before endTime is evaluated, so pauseVideo is called exactly when the value
\* just written is at or past endTime, and every hover event the chart
\* publishes in that tick carries graphTime computed from the written value.
C19_TickWriteBeforeEnd ==
    [][\A id \in activeTimers :
          (Tick(id) /\ playerRef # 0 /\ playerReady)
          => /\ videoTime' = playerPos
             /\ (\E j \in DOMAIN commands' : commands'[j].op = "pauseVideo")
                <=> (videoEndTime # Null /\ videoEndTime # 0 /\ videoTime' >= videoEndTime)
             /\ \A i \in DOMAIN broadcasts' :
                   broadcasts'[i].src = "sync"
                   => broadcasts'[i].time
                      = ComputeGraphTime(isSyncActive', videoTime', lapStartVideoTime')]_vars

\* a tick has written a position at endTime, called pauseVideo, and the chart
\* has published the graph time of that position
C19_Witness ==
    /\ \E j \in DOMAIN commands : commands[j] = PauseVideo("tick")
    /\ videoTime = playerPos /\ videoEndTime # Null /\ videoTime >= videoEndTime
    /\ \E i \in DOMAIN broadcasts :
          /\ broadcasts[i].src = "sync"
          /\ broadcasts[i].time = videoTime - lapStartVideoTime
          /\ broadcasts[i].time > 0

\* C20: while the video is the authority (isSyncActive before and after the
\* step) and the chart is on screen with data, every change of graphTime is
\* published as a hover event whose time is the new graphTime and which is
\* not user-initiated.
C20_GraphTimePublished ==
    [][(/\ isSyncActive /\ isSyncActive'
        /\ ChartShown /\ ChartShown' /\ dimensions /\ dimensions'
        /\ graphTime' # graphTime)
       => \E i \in DOMAIN broadcasts' :
             /\ broadcasts'[i].src = "sync"
             /\ broadcasts'[i].time = graphTime'
             /\ broadcasts'[i].userInitiated # "true"]_vars

\* sample i of the chart's channel data is one none is nearer to time t than
NearestChannelSample(i, t) ==
    /\ i \in DOMAIN channelData
    /\ \A j \in DOMAIN channelData :
          Abs(channelData[i].s - t) <= Abs(channelData[j].s - t)

\* C21: while isSyncActive is true and samples are loaded, the chart cursor
\* is at the channel sample nearest graphTime and the marker of a drawn map is
\* at the track sample nearest graphTime.
C21_CursorsFollowGraphTime ==
    isSyncActive
    => /\ (ChartShown /\ dimensions) => NearestChannelSample(hoverPoint.idx, graphTime)
       /\ MapDrawn => NearestTrackPoint(hoverMarkerRef, graphTime)


\* ------------------------------------------------------------------- C26
IsNumber(str) == Len(str) > 0 /\ \A i \in 1..Len(str) : IsDigit(str[i])
\* a string the claim calls malformed: fewer than three colon-separated
\* parts, or one of hours, minutes and seconds that is not a number
Malformed(syncTime) ==
    /\ ~syncTime.null /\ syncTime.chars # <<>>
    /\ LET timeParts == Split(syncTime.chars, ":")
       IN \/ Len(timeParts) < 3
          \/ \E k \in 1..3 : ~IsNumber(Split(timeParts[k], ".")[1])
\* C26: for every malformed sync-time string convertSyncTimeToSeconds
\* returns 0 and raises no exception.
C26_MalformedGivesZero ==
    (callArgs.fn = "convertSyncTimeToSeconds" /\ callResult.returned
     /\ Malformed(callArgs.syncTime))
    => /\ ~callResult.threw
       /\ callResult.value = Num(0)

\* ------------------------------------------------------------------- C27
\* HH:MM:SS or HH:MM:SS.mmm: two digits each, and three after the point
WellFormed(syncTime) ==
    /\ ~syncTime.null
    /\ LET timeParts == Split(syncTime.chars, ":")
       IN /\ Len(timeParts) = 3
          /\ IsNumber(timeParts[1]) /\ Len(timeParts[1]) = 2
          /\ IsNumber(timeParts[2]) /\ Len(timeParts[2]) = 2
          /\ LET secondsPart == Split(timeParts[3], ".")
             IN /\ Len(secondsPart) \in {1, 2}
                /\ IsNumber(secondsPart[1]) /\ Len(secondsPart[1]) = 2
                /\ Len(secondsPart) = 2
                      => IsNumber(secondsPart[2]) /\ Len(secondsPart[2]) = 3
TwoDigits(str, i) == 10 * DigitValue(str[i]) + DigitValue(str[i + 1])
\* HH * 3600 + MM * 60 + SS + mmm / 1000 read off the characters, in ms
FieldValue(chars) ==
    TwoDigits(chars, 1) * 3600000 + TwoDigits(chars, 4) * 60000
    + TwoDigits(chars, 7) * 1000
    + (IF Len(chars) = 12
       THEN 100 * DigitValue(chars[10]) + TwoDigits(chars, 11)
       ELSE 0)
\* C27: a well-formed HH:MM:SS or HH:MM:SS.mmm string converts to
\* HH*3600 + MM*60 + SS + mmm/1000, and null and the empty string to 0.
C27_WellFormedValue ==
    (callArgs.fn = "convertSyncTimeToSeconds" /\ callResult.returned)
    => /\ WellFormed(callArgs.syncTime)
          => callResult = Returned(Num(FieldValue(callArgs.syncTime.chars)))
       /\ (callArgs.syncTime.null \/ callArgs.syncTime.chars = <<>>)
          => callResult = Returned(Num(0))
\* "00:01:05.500" has been converted, to 65.5 s
C27_Witness ==
    /\ callArgs.fn = "convertSyncTimeToSeconds" /\ callResult.returned
    /\ callArgs.syncTime.chars
          = <<"0", "0", ":", "0", "1", ":", "0", "5", ".", "5", "0", "0">>
    /\ callResult.value = Num(65500)

\* ------------------------------------------------------------------- C22
\* the lowest index among the samples nearest to q
LowestNearest(times, q) ==
    CHOOSE i \in DOMAIN times :
        /\ \A j \in DOMAIN times : Abs(times[i] - q) <= Abs(times[j] - q)
        /\ \A j \in 1..(i - 1) : Abs(times[j] - q) > Abs(times[i] - q)
ProjectorRan ==
    /\ callArgs.fn \in Projectors /\ callResult.returned
    /\ callArgs.viewport /\ callArgs.time # Null /\ Len(callArgs.times) > 0
Earliest(times) == CHOOSE m \in {times[i] : i \in DOMAIN times} :
                       \A j \in DOMAIN times : m <= times[j]
Latest(times) == CHOOSE m \in {times[i] : i \in DOMAIN times} :
                     \A j \in DOMAIN times : m >= times[j]
Increasing(times) == \A i \in 1..(Len(times) - 1) : times[i] < times[i + 1]
C25_SecondResolveSame ==
    (callArgs.fn \in {"chartSyncEffect", "updateHoverMarker"}
     /\ callResult.returned /\ callResult.calls = 2)
    => /\ ~callResult.threw
       /\ callResult.value.hover = callResult.first.hover
       /\ callResult.value.last = callResult.first.last
       /\ callResult.value.marker = callResult.first.marker
       /\ callResult.value.lastValid = callResult.first.lastValid
\* the marker moved from the remembered time's sample to the new time's, twice
C25_Witness ==
    /\ callArgs.fn = "updateHoverMarker" /\ callResult.returned /\ callResult.calls = 2
    /\ callArgs.times = <<0, UnitsPerTenth, 2 * UnitsPerTenth>>
    /\ callArgs.remembered = UnitsPerTenth /\ callArgs.time = 2 * UnitsPerTenth
    /\ callResult.value.marker = [lat |-> 3, lng |-> 3]
    /\ callResult.value.lastValid = 2 * UnitsPerTenth

\* ------------------------------------------------------------------- C24
\* C24: with no samples, or with the viewport unknown (the chart has no
\* size, the map has no instance), the chart and map projectors draw no
\* cursor and no marker, publish nothing, remember nothing new and do not
\* throw, whatever the time, null included.
C24_NothingWithoutSamplesOrViewport ==
    (callArgs.fn \in Projectors /\ callResult.returned
     /\ \/ Len(callArgs.times) = 0
        \/ ~callArgs.viewport /\ callArgs.fn # "handleMouseMove")
    => /\ ~callResult.threw
       /\ callResult.value.hover = NoHover
       /\ callResult.value.marker = NoMarker
       /\ callResult.value.fx = <<>> /\ callResult.value.evs = <<>>
       /\ callResult.value.last = callArgs.remembered
       /\ callResult.value.lastValid = callArgs.remembered
\* updateHoverMarker ran with samples and a time but no map instance
C24_Witness ==
    /\ callArgs.fn = "updateHoverMarker" /\ callResult.returned
    /\ ~callArgs.viewport /\ callArgs.times = <<0, UnitsPerTenth>>
    /\ callArgs.time = UnitsPerTenth
    /\ callResult.value.marker = NoMarker

\* ------------------------------------------------------------------- C28
\* the Retry button of the map is on screen
RetryOffered == ContentShown /\ mapHasError /\ ~mapIsLoading
\* C28: the stored load promise is replaced only by a retry, at most one
\* script load is in flight, and the call that follows a retry's reset
\* starts a fresh script load.
C28_SingleFlightLoader ==
    [][/\ (loadGoogleMapsAPIPromise # 0
           /\ loadGoogleMapsAPIPromise' # loadGoogleMapsAPIPromise)
            => RetryOffered
       /\ scriptLoads' # scriptLoads
            => scriptElement # "loading" /\ scriptLoads' = scriptLoads + 1
       /\ (loadGoogleMapsAPIPromise # 0
           /\ loadGoogleMapsAPIPromise' # loadGoogleMapsAPIPromise)
            => scriptLoads' = scriptLoads + 1 /\ scriptElement' = "loading"]_vars

\* ------------------------------------------------------------------- C29
Served(e) == e.video /\ e.userInitiated = "true" /\ e.time # Null
HoverSeek(c) == c.op = "seekTo" /\ c.by = "hover"
MapHeard(e) == e.map
\* the events of a step and what the subscribers did in it
C29_DeliveryStep ==
    LET served == SelectSeq(broadcasts', Served)
        seeks == SelectSeq(commands', HoverSeek)
        heard == SelectSeq(broadcasts', MapHeard)
    IN \* only a subscriber mounted before the publish and still mounted hears it
       /\ \A i \in DOMAIN broadcasts' :
             (broadcasts'[i].video \/ broadcasts'[i].map) => ContentShown /\ ContentShown'
       \* an event dispatched by a DOM handler reaches both mounted subscribers
       /\ \A i \in DOMAIN broadcasts' :
             broadcasts'[i].src \in {"mouse", "external"}
             => broadcasts'[i].video = ContentShown /\ broadcasts'[i].map = ContentShown
       \* an event a chart effect publishes misses a listener whose effect runs
       \* again in the same commit
       /\ \A i \in DOMAIN broadcasts' :
             broadcasts'[i].src \in {"sync", "init"}
             => /\ broadcasts'[i].video
                   => isSyncActive' = isSyncActive /\ lapStartVideoTime' = lapStartVideoTime
                /\ broadcasts'[i].map
                   => isSyncActive' = isSyncActive /\ trackPath' = trackPath
       \* the video driver serves the events it hears in the step itself, in
       \* publish order, and nothing else
       /\ IF playerRef # 0 /\ playerReady
          THEN /\ Len(seeks) = Len(served)
               /\ \A i \in DOMAIN served :
                     seeks[i].arg = lapStartVideoTime + served[i].time
          ELSE seeks = <<>>
       \* the map holds the time of the last event it heard
       /\ (Len(heard) > 0 /\ ~isSyncActive')
             => mapHoverTime' = heard[Len(heard)].time
\* C29: a hover event is delivered synchronously and in publish order to
\* exactly the subscribers registered when it is published; nothing is
\* queued, so a subscriber that registers or registers again after the
\* publish never receives it.
C29_SynchronousDelivery == [][C29_DeliveryStep]_vars
\* a user-initiated event was heard by both subscribers and served at once
C29_Witness ==
    /\ Len(broadcasts) = 1 /\ broadcasts[1].src = "external"
    /\ broadcasts[1].video /\ broadcasts[1].map
    /\ broadcasts[1].userInitiated = "true" /\ broadcasts[1].time = 1
    /\ Len(commands) > 0 /\ commands[1] = SeekTo(lapStartVideoTime + 1, "hover")
    /\ ~isSyncActive /\ mapHoverTime = 1

\* ------------------------------------------------------------------- C30
\* the step publishes time t from the chart's initial or unmount effect
ChartPublishes(t) ==
    \E i \in DOMAIN broadcasts' :
        broadcasts'[i].src \in {"init", "unmount"} /\ broadcasts'[i].time = t
ChartMounts == ~ChartShown /\ ChartShown' /\ ~isSyncActive'
ChartGetsData ==
    /\ ChartShown /\ ChartShown' /\ channelData' # channelData
    /\ ~isSyncActive' /\ dimensions'
ChartUnmounts == ChartShown /\ ~ChartShown'
ChannelFetchFails == \E f \in BagToSet(dvFetches) : DvFetchResolve(f, FALSE)
TrackFetchFails == \E f \in BagToSet(mapFetches) : MapFetchResolve(f, FALSE)
ScriptLoadFails == MapInitialize(FALSE)
SyncAndLoop == <<videoTime, lapStartVideoTime, isSyncActive, playbackIntervalRef, activeTimers>>
YouTubeHosts == {YoutuBe, YoutubeCom, Www \o YoutubeCom}
VideoIdCalled == callArgs.fn = "getYouTubeVideoId" /\ callResult.returned
\* C32: getYouTubeVideoId returns the id for the youtu.be/<id> and the
\* youtube.com/watch?v=<id> URL shapes, and returns null without throwing
\* for a null, empty, unparseable or non-YouTube URL.
C32_VideoIdOrNull ==
    VideoIdCalled
    => /\ ~callResult.threw
       /\ \A id \in VideoIds :
             /\ callArgs.url = Url(Https, YoutuBe, <<"/">> \o id, <<>>)
                  => callResult.value = Chars(id)
             /\ \A h \in {YoutubeCom, Www \o YoutubeCom} :
                   callArgs.url = Url(Https, h, Watch, <<"?", "v", "=">> \o id)
                   => callResult.value = Chars(id)
       /\ (callArgs.url.null \/ callArgs.url.chars = <<>>) => callResult.value = NullString
       /\ \A p \in UrlPrefixes, h \in UrlHosts, pa \in UrlPaths, q \in UrlQueries :
             (callArgs.url = Url(p, h, pa, q) /\ (p = <<>> \/ h \notin YouTubeHosts))
             => callResult.value = NullString

\* ------------------------------------------------------------------- C33
FetchCalled ==
    callArgs.fn \in {"fetchSessionData", "fetchLapChannelData"} /\ callResult.returned
\* the response has a body text to carry
HasBodyText(response) == ~response.text.null /\ response.text.chars # <<>>
\* C33: fetchSessionData and fetchLapChannelData raise an error on every
\* non-2xx response, and the raised error carries both the HTTP status and
\* the response body text.
C33_ErrorCarriesStatusAndBody ==
    (FetchCalled /\ ~ResponseOk(callArgs.response))
    => /\ callResult.threw
       /\ Includes(callResult.value.message, NumberToString(callArgs.response.status))
       /\ HasBodyText(callArgs.response)
            => Includes(callResult.value.message, callArgs.response.text.chars)

\* ------------------------------------------------------------------- C34
\* a polling loop is active: an interval timer of the driver is running
PollingLoopActive == activeTimers # {}
\* C34: in every reachable state isSyncActive is true if and only if a
\* polling loop is active.
C34_SyncIffPolling == isSyncActive <=> PollingLoopActive
\* the player plays the second lap: sync is active and one loop is running
C34_Witness ==
    /\ isSyncActive /\ activeTimers = {playbackIntervalRef} /\ playerState = "playing"
    /\ selectedLap = 2 /\ livePlayers = 1

\* ------------------------------------------------------------------- C35
\* the step applies the track and speed data request f of a retry fetched
RetryApplied(f) == MapRetryFetchResolve(f, TRUE) /\ discarded' # "retry"
\* C35: track and speed data fetched by the map's retry are applied only if
\* the lap and session selected when retry was pressed are still selected
\* and the map is still mounted when the fetch resolves.
C35_RetryAppliedIfCurrent ==
    [][\A f \in BagToSet(retryFetches) :
          RetryApplied(f)
          => f.mounted /\ ContentShown /\ f.sid = sessionId /\ f.lap = selectedLap]_vars

\* ------------------------------------------------------------------- C36
\* C36: a manual seek preserves the play state: the driver's seek is
\* followed by play if sync was active when the event was handled and by
\* pause otherwise, so no hover event makes a paused video play.
C36_SeekKeepsPlayState ==
    [][/\ \A j \in DOMAIN commands' :
             HoverSeek(commands'[j])
             => /\ j < Len(commands')
                /\ commands'[j + 1] = IF isSyncActive THEN PlayVideo("hover")
                                      ELSE PauseVideo("hover")
       /\ \A j \in DOMAIN commands' :
             (commands'[j].by = "hover" /\ commands'[j].op # "seekTo")
             => /\ j > 1 /\ HoverSeek(commands'[j - 1])
                /\ commands'[j].op = "playVideo" => isSyncActive]_vars
\* a paused video was sought by a hover event and told to stay paused
C36_Witness ==
    /\ Len(commands) = 2 /\ HoverSeek(commands[1]) /\ commands[2] = PauseVideo("hover")
    /\ playerState = "paused" /\ ~isSyncActive /\ playerManuallySeekedRef
    /\ playerPos = commands[1].arg

\* ------------------------------------------------------------------- C37
PointerMoves == (\E m \in Times \cup {Null} : ChartMouseMove(m)) \/ ChartMouseLeave
\* C37: while isSyncActive is true, pointer movement over the chart
\* publishes no hover event and leaves the chart's cursor and tooltip as they
\* were; the cursor moves only when the sync effect runs, and no hover event
\* comes from the pointer.
C37_PointerIgnoredWhileSynced ==
    [][/\ (isSyncActive /\ PointerMoves)
            => /\ broadcasts' = <<>>
               /\ UNCHANGED <<hoverPoint, tooltipVisible, lastDispatchedGraphTimeRef>>
       /\ isSyncActive => \A i \in DOMAIN broadcasts' : broadcasts'[i].src # "mouse"
       /\ (isSyncActive /\ isSyncActive' /\ ChartShown /\ ChartShown'
           /\ hoverPoint' # hoverPoint)
            => \/ graphTime' # graphTime
               \/ channelData' # channelData
               \/ dimensions' # dimensions]_vars
\* the pointer moved over a chart whose cursor the video drives
C37_Witness ==
    /\ isSyncActive /\ ChartShown /\ dimensions /\ graphTime > 0
    /\ hoverPoint.idx = ChartSyncNearest(TransformedData(channelData), graphTime)
    /\ hoverPoint.idx > 1 /\ tooltipVisible
    /\ broadcasts = <<>> /\ commands = <<>>

\* ------------------------------------------------------------------- C38
\* C38: once the Dashboard's lap/session effect has run, the seekToTime
\* passed to the video player equals the lapStartVideoTime of the shared
\* sync state, whatever lap is selected and whatever session data is held;
\* both are 0 when there is no session data.
C38_SeekIsLapStart ==
    dashMounted
    => /\ videoSeekToTime = lapStartVideoTime
       /\ sessionData = 0 => videoSeekToTime = 0 /\ lapStartVideoTime = 0

\* The second lap of a loaded session is selected: the player is told to seek
\* to the lap's start, past the sync offset, and the shared state holds the
\* same second.
C38_Witness ==
    /\ dashMounted
    /\ sessionData = 1
    /\ selectedLap = 2
    /\ videoSeekToTime = BaseSync(1) + StartSecond(2)
    /\ lapStartVideoTime = BaseSync(1) + StartSecond(2)

\* ------------------------------------------------------------------- C39
\* C39: at most one hover marker is on the map at any time.  A marker is
\* made only when hoverMarkerRef holds none, so the markers on the map are
\* exactly the one the ref holds; an update of an existing marker moves it
\* and makes no second one; a retry takes the marker off the map before any
\* new one is made.
C39_AtMostOneMarker ==
    /\ liveMarkers <= 1
    /\ liveMarkers = 1 <=> hoverMarkerRef # NoMarker

\* The map has been retried and drawn again: the script was asked for a second
\* time, and one marker, the one the ref holds, is on the map.
C39_Witness ==
    /\ loadGoogleMapsAPIPromise > 1
    /\ MapDrawn
    /\ hoverMarkerRef # NoMarker
    /\ liveMarkers = 1

\* ------------------------------------------------------------------- C40
\* C40: fetchLapTrackPath pairs the latitude and longitude samples by index.
\* The positions it keeps are those below the shorter channel's length where
\* both samples are there and neither coordinate is NaN; the k-th point of
\* the result takes lat and lng from the k-th kept position of the two
\* channels and its time from the latitude sample there, so nothing at or
\* beyond the shorter length and no pair with a NaN coordinate is in the
\* result, and the points come in the order of the input.
TrackPathCalled ==
    /\ callArgs.fn = "fetchLapTrackPath" /\ callResult.returned
    /\ ResponseOk(callArgs.latResponse) /\ ResponseOk(callArgs.lngResponse)
    /\ callArgs.latResponse.parses /\ callArgs.lngResponse.parses
KeptPositions(latData, lngData) ==
    {i \in 1..Len(latData) :
        /\ i <= Len(lngData)
        /\ ~latData[i].null /\ ~lngData[i].null
        /\ ~latData[i].d.nan /\ ~lngData[i].d.nan}
\* the k-th smallest member of a set of positions
Kth(S, k) == CHOOSE i \in S : Cardinality({j \in S : j <= i}) = k
C40_PairedByIndex ==
    TrackPathCalled
    => LET latData == callArgs.latResponse.json
           lngData == callArgs.lngResponse.json
           kept == KeptPositions(latData, lngData)
           points == callResult.value
       IN /\ ~callResult.threw
          /\ Len(points) = Cardinality(kept)
          /\ \A k \in 1..Len(points) :
                /\ points[k].lat = latData[Kth(kept, k)].d
                /\ points[k].lng = lngData[Kth(kept, k)].d
                /\ points[k].s = latData[Kth(kept, k)].s

\* A longitude channel one shorter than the latitude channel and a pair with
\* a NaN latitude between two good pairs: the result is the two good pairs,
\* in the order of the input, with the latitude samples' times.
C40_Witness ==
    /\ TrackPathCalled
    /\ callArgs.latResponse.json
         = <<Sample(Num(2), 2), Sample(NaN, 1), Sample(Num(1), 1), Sample(Num(2), 2)>>
    /\ callArgs.lngResponse.json = <<Sample(Num(3), 9), Sample(Num(3), 9), Sample(Num(3), 9)>>
    /\ callResult.value = <<[lat |-> Num(2), lng |-> Num(3), s |-> 2],
                            [lat |-> Num(1), lng |-> Num(3), s |-> 1]>>

=============================================================================
